---- MODULE Spec2Model ----
(***************************************************************************)
(* Roobar3000 rust-core: the playback engine (audio/engine.rs), the        *)
(* transport (audio/player.rs), the audio clock (audio/clock.rs), the      *)
(* buffer pool and byte ring (audio/buffer_pool.rs), the decoder adapter   *)
(* (decoder/symphonia_backend.rs), the output backend (output/backend.rs)  *)
(* and the control-plane handlers (ipc/handlers.rs).                       *)
(*                                                                         *)
(* Option<T> is a sequence of length 0 (None) or 1 (Some).  A Result is    *)
(* the string "Ok" or the name of the AudioError variant.                  *)
(***************************************************************************)
EXTENDS Integers, Sequences, FiniteSets, TLC

(***************************************************************************)
(* Bounds of the exploration                                               *)
(***************************************************************************)
\* worker loop iterations explored (each ends with the 5 ms sleep)
MaxTime == 3
\* events held by the player's channel before new calls stop being issued
MaxEvents == 4
\* largest seek position (seconds) a client sends
MaxPos == 1
\* frames of the long track file
TrackFrames == 3
\* commands a control-plane thread leaves queued before it sends another
MaxQueue == 2
\* buffer slots a pool grows to before its callers stop releasing
MaxSlots == 4
\* the bytes a ring's writer offers in all
MaxIssued == 20
\* the length of a short write or read on a ring
ChunkLen == 5
\* the packets of a container and the frames of one packet, at most
MaxPackets == 3
MaxPacketFrames == 3
\* samples in the block the device hands to the output callback
BlockSamples == 2
\* largest sample value the device block holds on entry
MaxSample == 8
\* frames a codec packet decodes to
PacketFrames == 1

(***************************************************************************)
(* Configuration (AudioConfig) of the modelled engine, scaled down         *)
(***************************************************************************)
BufferSizeFrames == 2
PoolSize == 1
RingCapacity == 12
\* target_buffer_level = TargetNum / TargetDen
TargetNum == 1
TargetDen == 2

(***************************************************************************)
(* Values                                                                  *)
(***************************************************************************)
PlayerStates == {"Stopped", "Playing", "Paused", "Buffering", "Error"}

\* files a client can name: three decodable tracks and one that fails to open
GoodPaths == {"a.flac", "b.flac", "empty.flac"}
BadPaths == {"missing.flac"}
Paths == GoodPaths \cup BadPaths

Positions == 0..MaxPos

\* frames in a track file: a.flac is longer than a pool buffer, b.flac holds
\* one frame and empty.flac none
TrackLength(p) ==
    IF p = "a.flac" THEN TrackFrames ELSE IF p = "b.flac" THEN 1 ELSE 0

\* volumes a client asks for, in percent of full scale
Volumes == {50}

\* f32::clamp(0.0, 1.0)
Clamp(v) == IF v < 0 THEN 0 ELSE IF v > 100 THEN 100 ELSE v

\* the states a library client sets directly: the two that no Player method
\* enters
ApiStates == {"Buffering", "Error"}

None == <<>>
Some(x) == <<x>>
IsSome(o) == Len(o) = 1
Unwrap(o) == o[1]

Min(a, b) == IF a < b THEN a ELSE b

\* PlayerEvent
StateChanged(s) == [type |-> "StateChanged", state |-> s, path |-> "", pos |-> 0]
TrackChanged(p) == [type |-> "TrackChanged", state |-> "", path |-> p, pos |-> 0]
PositionChanged(d) == [type |-> "PositionChanged", state |-> "", path |-> "", pos |-> d]
ErrorEvent(m) == [type |-> "Error", state |-> "", path |-> m, pos |-> 0]

\* EngineCommand; d is the payload of Seek (seconds) and SetVolume (percent)
Cmd(t, p, d) == [type |-> t, path |-> p, pos |-> d]
NoopTypes == {"SetFormat", "EnableDSP", "SetEQ"}
TransportCommands == {Cmd(t, "", 0) : t \in {"Play", "Pause", "Stop"}}
Commands ==
    TransportCommands
    \cup {Cmd("LoadTrack", p, 0) : p \in Paths}
    \cup {Cmd("Seek", "", d) : d \in Positions \ {0}}
    \cup {Cmd("SetVolume", "", v) : v \in Volumes}
    \cup {Cmd(t, "", 0) : t \in NoopTypes}
    \cup {Cmd("Shutdown", "", 0)}

\* AudioFormat::default(): 44100 Hz, 2 channels, S16
DefaultChannels == 2
DefaultBytesPerSample == 2
BytesPerFrame == DefaultChannels * DefaultBytesPerSample

\* SampleFormat and SampleFormat::bytes_per_sample
SampleFormats == {"U8", "S16", "S24", "S32", "F32", "F64"}
BytesPerSample(sf) ==
    CASE sf = "U8" -> 1
      [] sf = "S16" -> 2
      [] sf = "S24" -> 3
      [] sf = "S32" -> 4
      [] sf = "F32" -> 4
      [] sf = "F64" -> 8

\* SampleFormat::is_integer
IsInteger(sf) == sf \notin {"F32", "F64"}

\* AudioFormat::new and AudioFormat::bytes_per_frame
AudioFormatNew(rate, ch, sf) ==
    [sample_rate |-> rate, channels |-> ch, sample_format |-> sf]
FormatBytesPerFrame(fmt) == fmt.channels * BytesPerSample(fmt.sample_format)

\* the format Decoder::new reads from the file's codec parameters
TrackFormat(p) ==
    [sample_rate |-> IF p = "a.flac" THEN 44100 ELSE 48000,
     channels |-> 2, sample_format |-> "S16"]

(***************************************************************************)
(* Threads                                                                 *)
(***************************************************************************)
Worker == "worker"
Handlers == {"h1", "h2"}
Threads == {Worker} \cup Handlers
\* the device's realtime thread and the thread that owns the AudioOutput
Audio == "audio"
Control == "control"

VARIABLES
    state,          \* Player.state
    position,       \* Player.position (seconds)
    current_format, \* Player.current_format
    playerEvents,   \* the channel created in Player::new
    engineEvents,   \* the channel created in AudioEngine::new
    decoder,        \* AudioEngine.decoder
    output,         \* AudioEngine.output
    buffer_pool,    \* AudioEngine.buffer_pool
    pool_guard,     \* engine_worker holds the guard of buffer_pool.lock()
    buffer,         \* the Option<AudioBuffer> the last acquire() returned
    frames,         \* engine_worker: what decode_next returned this round
    written,        \* engine_worker: what ring_buffer.write returned
    held,           \* the buffers callers of a BufferPool hold
    audio_output,   \* an AudioOutput: stream, volume, is_playing
    volume_lock,    \* the thread inside AudioOutput.volume's mutex
    callback,       \* the output callback: position, vol, data
    setter,         \* AudioOutput::set_volume: position, vol
    acked,          \* the path of the last player.load answered with success
    response,       \* what the last get_format read after it
    ring_buffer,    \* AudioEngine.ring_buffer
    clock,          \* AudioEngine.clock
    command_queue,  \* the command channel
    running,        \* engine_worker's loop flag
    now,            \* Instant::now(), in worker loop periods
    cmd,            \* the command engine_worker is processing
    pre,            \* the engine's state when cmd was received
    scenario,       \* progress of LoadTrack(p), Play, Stop on a fresh engine
    pc,             \* each thread's position
    op,             \* the Player method a thread is in
    target,         \* set_state's new_state argument
    arg,            \* set_position's pos argument
    result,         \* what the thread's last Player call returned
    ring_lock,      \* the thread inside SharedRingBuffer.inner's mutex
    ring_writer,    \* the thread calling SharedRingBuffer::write
    ring_reader,    \* the thread calling SharedRingBuffer::read
    accepted,       \* the bytes the ring's writes accepted, in order
    delivered,      \* the bytes the ring's reads returned, in order
    ring_call,      \* the last ring call that returned
    unit_decoder,   \* a Decoder and its caller
    out_frames,     \* the frames its decode_next calls returned, in order
    decoder_call,   \* the last Decoder call that returned
    pool_call,      \* the last release() of a buffer its caller made
    bitperfect,     \* a BitPerfectManager
    prepared,       \* what its last prepare_format returned
    integrity,      \* what check_integrity returned just now
    best,           \* what a search for a device returned just now
    chain,          \* a DSPChain
    chain_call,     \* the last DSPChain call that returned
    equalizer,      \* an Equalizer
    eq_call,        \* the last Equalizer call that returned
    clock_stats,    \* what the last AudioClock::get_stats returned
    output_call     \* the last AudioOutput call that returned

vars == <<state, position, current_format, playerEvents, engineEvents,
          decoder, output, buffer_pool, pool_guard, buffer, frames, written,
          held, audio_output, volume_lock, callback, setter, acked, response,
          ring_buffer, clock, command_queue, running, now, cmd, pre, scenario,
          pc, op, target, arg, result, ring_lock, ring_writer, ring_reader,
          accepted, delivered, ring_call, unit_decoder, out_frames,
          decoder_call, pool_call, bitperfect, prepared, integrity, best,
          chain, chain_call, equalizer, eq_call, clock_stats, output_call>>

ringVars == <<ring_lock, ring_writer, ring_reader, accepted, delivered,
              ring_call>>
decoderVars == <<unit_decoder, out_frames, decoder_call>>
bitperfectVars == <<bitperfect, prepared, integrity, best>>
dspVars == <<chain, chain_call, equalizer, eq_call>>
miscVars == <<clock_stats, output_call>>
unitVars == <<ringVars, decoderVars, pool_call, bitperfectVars, dspVars,
              miscVars>>

tickVars == <<pool_guard, buffer, frames, written>>
outVars == <<audio_output, volume_lock, callback, setter>>
controlVars == <<acked, response>>
extVars == <<held, outVars, controlVars>>

playerVars == <<state, position, playerEvents>>
engineVars == <<current_format, engineEvents, decoder, output, extVars,
                buffer_pool, tickVars, ring_buffer, clock, running, now>>
callVars == <<op, target, arg, result>>

(***************************************************************************)
(* AudioClock                                                              *)
(***************************************************************************)
ClockNew ==
    [start_time |-> None, last_update |-> None, frames_played |-> 0,
     drift_accumulator |-> 0, jitter_samples |-> <<>>]

ClockStart(c, t) ==
    [start_time |-> Some(t), last_update |-> Some(t), frames_played |-> 0,
     drift_accumulator |-> 0, jitter_samples |-> <<>>]

\* stop() that leaves the clock running
ClockStopKeepsRunning(c) == c

ClockStop(c) == [c EXCEPT !.start_time = None, !.last_update = None]

ClockIsRunning(c) == IsSome(c.start_time)

ClockReset(c, t) ==
    LET z == [c EXCEPT !.frames_played = 0, !.drift_accumulator = 0,
                       !.jitter_samples = <<>>]
    IN IF ClockIsRunning(c)
       THEN [z EXCEPT !.start_time = Some(t), !.last_update = Some(t)]
       ELSE z

\* format.sample_rate, in frames per unit of the clock's time
ClockRate == 2

\* nanoseconds per unit of the clock's time
NanosPerTick == 1000

\* ppm: parts per 1_000_000
PartsPerMillion == 1000000

\* jitter_samples keeps the newest 100 samples
JitterWindow == 100

\* u64::abs_diff
AbsDiff(a, b) == IF a > b THEN a - b ELSE b - a

\* the sum of a sequence of numbers
RECURSIVE SumOf(_)
SumOf(seq) == IF seq = <<>> THEN 0 ELSE Head(seq) + SumOf(Tail(seq))

\* the square root, rounded down
Isqrt(x) == CHOOSE k \in 0..x : k * k <= x /\ (k + 1) * (k + 1) > x

\* update(frames) at time t
ClockUpdate(c, n, t) ==
    IF ~ClockIsRunning(c)
    THEN c
    ELSE LET measured ==
                 IF IsSome(c.last_update)
                 THEN LET elapsed == t - Unwrap(c.last_update)
                          expected_frames == elapsed * ClockRate
                          pushed == Append(c.jitter_samples,
                                           AbsDiff(n, expected_frames))
                      IN [c EXCEPT !.drift_accumulator = @ + n - expected_frames,
                                   !.jitter_samples =
                                       IF Len(pushed) > JitterWindow
                                       THEN Tail(pushed)
                                       ELSE pushed]
                 ELSE c
         IN [measured EXCEPT !.frames_played = @ + n, !.last_update = Some(t)]

\* get_stats() at time t: Option<ClockStats>, drift_ppm and jitter_ns
\* rounded down to whole numbers
ClockGetStats(c, t) ==
    IF ~ClockIsRunning(c)
    THEN None
    ELSE LET total_frames == c.frames_played
             elapsed == t - Unwrap(c.start_time)
             expected_frames == elapsed * ClockRate
             drift_ppm ==
                 IF expected_frames > 0
                 THEN ((total_frames - expected_frames) * PartsPerMillion)
                          \div expected_frames
                 ELSE 0
             len == Len(c.jitter_samples)
             avg == SumOf(c.jitter_samples) \div len
             squares == SumOf([i \in 1..len |->
                                  (c.jitter_samples[i] - avg)
                                      * (c.jitter_samples[i] - avg)])
             jitter_ns ==
                 IF len # 0
                 THEN Isqrt((squares * NanosPerTick * NanosPerTick)
                                \div (len * ClockRate * ClockRate))
                 ELSE 0
         IN Some([drift_ppm |-> drift_ppm, jitter_ns |-> jitter_ns,
                  buffer_level |-> 0])

(***************************************************************************)
(* AudioRingBuffer                                                         *)
(***************************************************************************)
RECURSIVE RingWrite(_, _)
\* write() that pushes every byte, whatever the capacity
RingWriteUnbounded(ring, data) == ring \o data

\* the ring after write(data): bytes are pushed while len < capacity
RingWrite(ring, data) ==
    IF data = <<>> \/ Len(ring) >= RingCapacity
    THEN ring
    ELSE RingWrite(Append(ring, Head(data)), Tail(data))

RECURSIVE RingWritten(_, _)
\* what write(data) returns: the pushes it made
RingWritten(ring, data) ==
    IF data = <<>> \/ Len(ring) >= RingCapacity
    THEN 0
    ELSE 1 + RingWritten(Append(ring, Head(data)), Tail(data))

RECURSIVE RingReadNewestFirst(_, _)
RECURSIVE RingRead(_, _)
\* read() that pops from the back
RingReadNewestFirst(ring, n) ==
    IF n = 0 \/ ring = <<>>
    THEN [ring |-> ring, bytes |-> <<>>]
    ELSE LET rest == RingReadNewestFirst(SubSeq(ring, 1, Len(ring) - 1), n - 1)
         IN [ring |-> rest.ring, bytes |-> <<ring[Len(ring)]>> \o rest.bytes]

\* read(buf) for a buf of n bytes: the ring afterwards and the bytes put in
\* buf, one pop_front per slot until the ring is empty
RingRead(ring, n) ==
    IF n = 0 \/ ring = <<>>
    THEN [ring |-> ring, bytes |-> <<>>]
    ELSE LET rest == RingRead(Tail(ring), n - 1)
         IN [ring |-> rest.ring, bytes |-> <<Head(ring)>> \o rest.bytes]

\* available(), len()
RingAvailable(ring) == RingCapacity - Len(ring)
RingLen(ring) == Len(ring)

RingClear(ring) == <<>>

(***************************************************************************)
(* BufferPool                                                              *)
(***************************************************************************)
\* AudioBuffer::new(format, frames): zeroed, frames * bytes_per_frame bytes
AudioBufferNew(n) ==
    [frames |-> n, data |-> [i \in 1..(n * BytesPerFrame) |-> 0]]

\* AudioBuffer::new for a format of the caller's choice
AudioBufferOf(fmt, n) ==
    [frames |-> n, data |-> [i \in 1..(FormatBytesPerFrame(fmt) * n) |-> 0]]

\* AudioBuffer::capacity
Capacity(buf) == Len(buf.data)

BufferPoolNew ==
    [buffers |-> [i \in 1..PoolSize |-> AudioBufferNew(BufferSizeFrames)],
     free_buffers |-> [i \in 1..PoolSize |-> i]]

\* acquire() that hands out the buffer and leaves its index on the free list
PoolAcquireKeepsFree(pool) ==
    IF pool.free_buffers = <<>>
    THEN <<pool, None>>
    ELSE <<pool, Some(pool.buffers[pool.free_buffers[Len(pool.free_buffers)]])>>

\* acquire(): <<pool afterwards, Option<AudioBuffer>>>
PoolAcquire(pool) ==
    IF pool.free_buffers = <<>>
    THEN <<pool, None>>
    ELSE LET n == Len(pool.free_buffers)
             index == pool.free_buffers[n]
         IN <<[buffers |-> [pool.buffers EXCEPT ![index] = AudioBufferNew(0)],
               free_buffers |-> SubSeq(pool.free_buffers, 1, n - 1)],
              Some(pool.buffers[index])>>

\* release() without data.fill(0)
PoolReleaseKeepsData(pool, buf) ==
    IF buf.frames = BufferSizeFrames
    THEN [buffers |-> Append(pool.buffers, buf),
          free_buffers |-> Append(pool.free_buffers, Len(pool.buffers) + 1)]
    ELSE pool

\* available_count()
AvailableCount(pool) == Len(pool.free_buffers)

\* total_count()
TotalCount(pool) == Len(pool.buffers)

PoolRelease(pool, buf) ==
    IF buf.frames = BufferSizeFrames
    THEN [buffers |-> Append(pool.buffers,
                             [buf EXCEPT !.data = [i \in DOMAIN buf.data |-> 0]]),
          free_buffers |-> Append(pool.free_buffers, Len(pool.buffers) + 1)]
    ELSE pool

(***************************************************************************)
(* Decoder                                                                 *)
(***************************************************************************)
\* Decoder::new(path): Some(decoder) or None when the file cannot be opened
\* the frames of the packets the container of track p holds, in order
TrackPackets(p) ==
    [k \in 1..((TrackLength(p) + PacketFrames - 1) \div PacketFrames) |->
        Min(PacketFrames, TrackLength(p) - (k - 1) * PacketFrames)]

RECURSIVE PacketStart(_, _)
\* the source frame the packet after the first k packets starts at
PacketStart(pk, k) == IF k = 0 THEN 0 ELSE PacketStart(pk, k - 1) + pk[k]

\* a new Decoder on a container with packets pk: nothing read, frame 0
DecoderOf(p, pk) ==
    [path |-> p, packets |-> pk, packet |-> 0, current_frame |-> 0]

DecoderNew(p) ==
    IF p \in GoodPaths
    THEN Some(DecoderOf(p, TrackPackets(p)))
    ELSE None

\* the bytes of one decoded frame (every byte tagged with the frame number)
FrameBytes(f) == [i \in 1..BytesPerFrame |-> f + 1]

\* buffer.data after the frames in fs were copied to its start
RECURSIVE CopyFrames(_, _, _)
CopyFrames(data, fs, at) ==
    IF fs = <<>>
    THEN data
    ELSE CopyFrames([i \in DOMAIN data |->
                        IF i > at * BytesPerFrame /\ i <= (at + 1) * BytesPerFrame
                        THEN FrameBytes(Head(fs))[i - at * BytesPerFrame]
                        ELSE data[i]],
                    Tail(fs), at + 1)

\* decode_next(buffer): [dec, data, frames]; one packet per loop round, the
\* part of a packet that does not fit in the buffer is not kept
RECURSIVE DecodeLoop(_, _, _, _)
DecodeLoop(dec, data, decoded_frames, target_frames) ==
    IF \/ decoded_frames >= target_frames
       \/ dec.packet >= Len(dec.packets)
    THEN [dec |-> dec, data |-> data, frames |-> decoded_frames]
    ELSE LET first == PacketStart(dec.packets, dec.packet)
             inPacket == dec.packets[dec.packet + 1]
             frames_to_copy == IF inPacket < target_frames - decoded_frames
                               THEN inPacket ELSE target_frames - decoded_frames
             copied == CopyFrames(data,
                                  [k \in 1..frames_to_copy |-> first + k - 1],
                                  decoded_frames)
             dec2 == [dec EXCEPT !.packet = @ + 1,
                                 !.current_frame = @ + frames_to_copy]
         IN IF frames_to_copy < inPacket
            THEN [dec |-> dec2, data |-> copied,
                  frames |-> decoded_frames + frames_to_copy]
            ELSE DecodeLoop(dec2, copied, decoded_frames + frames_to_copy,
                            target_frames)

DecodeNext(dec, buf) == DecodeLoop(dec, buf.data, 0, buf.frames)

\* seek(frame)
DecoderSeek(dec, frame) == [dec EXCEPT !.current_frame = frame]

\* reset()
DecoderReset(dec) == [dec EXCEPT !.current_frame = 0]

(***************************************************************************)
(* AudioDevice, DeviceManager, BitPerfectManager                           *)
(***************************************************************************)
BitPerfectModes == {"Disabled", "Automatic", "Exclusive", "Passthrough"}

\* a SupportedStreamConfigRange of a device
ConfigRange(ch, lo, hi, sf) ==
    [channels |-> ch, min_sample_rate |-> lo, max_sample_rate |-> hi,
     sample_format |-> sf]

\* supports_format(format): some config range has the format's channel
\* count and holds its sample rate
SupportsFormat(device, fmt) ==
    \E config \in device.configs :
        /\ config.channels = fmt.channels
        /\ config.min_sample_rate <= fmt.sample_rate
        /\ config.max_sample_rate >= fmt.sample_rate

RECURSIVE MaxRate(_)
\* DeviceInfo.max_sample_rate: the largest max_sample_rate of the configs
MaxRate(configs) ==
    IF configs = {}
    THEN 0
    ELSE LET config == CHOOSE x \in configs : TRUE
             rest == MaxRate(configs \ {config})
         IN IF config.max_sample_rate > rest THEN config.max_sample_rate
            ELSE rest

\* DeviceManager::default_device
DefaultDevice(dm) ==
    IF IsSome(dm.default_device)
          /\ Unwrap(dm.default_device) \in 1..Len(dm.devices)
    THEN Some(dm.devices[Unwrap(dm.default_device)])
    ELSE None

\* BitPerfectManager::new(config) over the devices the host enumerates
BitPerfectManagerNew(config, dm) ==
    [config |-> config, device_manager |-> dm, current_format |-> None,
     is_bitperfect |-> FALSE]

\* validate_format(format): Ok(bool)
ValidateFormat(mgr, fmt) ==
    IF mgr.config.mode = "Disabled"
    THEN FALSE
    ELSE LET device == DefaultDevice(mgr.device_manager)
         IN IF IsSome(device) /\ SupportsFormat(Unwrap(device), fmt)
            THEN IF mgr.config.prefer_integer
                       /\ IsInteger(fmt.sample_format)
                 THEN TRUE
                 ELSE TRUE
            ELSE FALSE

\* check_integrity(): Ok(bool)
CheckIntegrity(mgr) ==
    LET device == DefaultDevice(mgr.device_manager)
    IN /\ IsSome(mgr.current_format)
       /\ IsSome(device)
       /\ SupportsFormat(Unwrap(device), Unwrap(mgr.current_format))

\* AudioOutput::to_cpal_format
ToCpalFormat(sf) ==
    CASE sf = "U8" -> "U8"
      [] sf = "S16" -> "I16"
      [] sf = "S24" -> "I32"
      [] sf = "S32" -> "I32"
      [] sf = "F32" -> "F32"
      [] sf = "F64" -> "F64"

Abs(x) == IF x < 0 THEN -x ELSE x

\* AudioOutput::score_config
ScoreConfig(config, fmt) ==
    (IF config.channels = fmt.channels
     THEN 100
     ELSE -(Abs(config.channels - fmt.channels) * 10))
    + (IF /\ config.min_sample_rate <= fmt.sample_rate
          /\ config.max_sample_rate >= fmt.sample_rate
       THEN 50 ELSE 0)
    + (IF config.sample_format = ToCpalFormat(fmt.sample_format)
       THEN 30 ELSE 0)

RECURSIVE FirstSupporting(_, _, _)
\* devices.iter().find(|d| d.supports_format(format)), from devices[i] on
FirstSupporting(devices, fmt, i) ==
    IF i > Len(devices)
    THEN None
    ELSE IF SupportsFormat(devices[i], fmt)
    THEN Some(i)
    ELSE FirstSupporting(devices, fmt, i + 1)

\* DeviceManager::find_best_device_for_format: the place of the device in
\* devices, if any
FindBestDeviceForFormat(dm, fmt) == FirstSupporting(dm.devices, fmt, 1)

\* AudioDevice::info().index of devices[i]: its place in the host's list,
\* counted from 0
InfoIndex(i) == i - 1

\* BitPerfectManager::find_best_device: Option<usize>
FindBestDevice(mgr, fmt) ==
    LET default == DefaultDevice(mgr.device_manager)
        found == FindBestDeviceForFormat(mgr.device_manager, fmt)
    IN IF mgr.config.mode = "Disabled"
       THEN IF IsSome(default) THEN Some(0) ELSE None
       ELSE IF IsSome(found)
       THEN Some(InfoIndex(Unwrap(found)))
       ELSE IF IsSome(default)
       THEN Some(InfoIndex(Unwrap(mgr.device_manager.default_device)))
       ELSE None

Ok(fmt) == [ok |-> TRUE, format |-> Some(fmt), error |-> None]
Err(e) == [ok |-> FALSE, format |-> None, error |-> Some(e)]

\* prepare_format(source_format): the manager afterwards and the Result
PrepareFormat(mgr, source_format) ==
    LET valid == ValidateFormat(mgr, source_format)
        mgr2 == [mgr EXCEPT !.current_format = Some(source_format),
                            !.is_bitperfect = valid]
        device == DefaultDevice(mgr.device_manager)
    IN [mgr |-> mgr2,
        result |->
          IF valid
          THEN Ok(source_format)
          ELSE IF ~mgr.config.allow_resampling
          THEN Err("BitPerfectError")
          ELSE IF IsSome(device)
          THEN Ok(AudioFormatNew(MaxRate(Unwrap(device).configs),
                                 source_format.channels,
                                 source_format.sample_format))
          ELSE Ok(source_format)]

(***************************************************************************)
(* EQBand, EQPreset, Equalizer (gains in dB, Q in thousandths)             *)
(***************************************************************************)
\* EQBand::new: the gain is stored as given
EQBandNew(frequency, gain_db, q) ==
    [frequency |-> frequency, gain_db |-> gain_db, q |-> q]

\* f32::clamp(-20.0, 20.0)
ClampGain(x) == IF x < -20 THEN -20 ELSE IF x > 20 THEN 20 ELSE x

\* EQBand::set_gain
SetGain(band, gain_db) == [band EXCEPT !.gain_db = ClampGain(gain_db)]

\* EQBand::reset
BandReset(band) == [band EXCEPT !.gain_db = 0]

\* Equalizer::default_frequencies for the band counts it lists
DefaultFrequencies(count) ==
    CASE count = 10 ->
           <<32, 64, 125, 250, 500, 1000, 2000, 4000, 8000, 16000>>
      [] count = 8 -> <<60, 150, 400, 1000, 2400, 6000, 12000, 14000>>
      [] count = 5 -> <<100, 400, 1000, 4000, 10000>>

\* bands of gain 0 and Q 1.414 at the given frequencies
FlatBands(frequencies) ==
    [i \in DOMAIN frequencies |-> EQBandNew(frequencies[i], 0, 1414)]

\* preset.bands[i].gain_db = g for each <<i, g>> of gains (i from 0)
RECURSIVE WithGains(_, _)
WithGains(bands, gains) ==
    IF gains = <<>>
    THEN bands
    ELSE WithGains([bands EXCEPT ![Head(gains)[1] + 1].gain_db = Head(gains)[2]],
                   Tail(gains))

\* EQPreset::flat, bass_boost, vocal, rock, classical
PresetFlat == FlatBands(DefaultFrequencies(10))
PresetBassBoost == WithGains(PresetFlat, <<<<0, 6>>, <<1, 4>>, <<2, 2>>>>)
PresetVocal ==
    WithGains(PresetFlat, <<<<3, -2>>, <<4, 2>>, <<5, 3>>, <<6, 2>>>>)
PresetRock ==
    WithGains(PresetFlat, <<<<0, 5>>, <<1, 3>>, <<6, 2>>, <<7, 4>>, <<8, 3>>>>)
PresetClassical ==
    WithGains(PresetFlat,
              <<<<0, 4>>, <<1, 3>>, <<2, 2>>, <<7, 2>>, <<8, 3>>, <<9, 2>>>>)

\* the presets Equalizer::new inserts
BuiltinPresets ==
    [n \in {"Flat", "Bass Boost", "Vocal", "Rock", "Classical"} |->
        CASE n = "Flat" -> PresetFlat
          [] n = "Bass Boost" -> PresetBassBoost
          [] n = "Vocal" -> PresetVocal
          [] n = "Rock" -> PresetRock
          [] n = "Classical" -> PresetClassical]

\* Equalizer::new(sample_rate, channels, band_count); history: whether the
\* filter registers hold samples
EqualizerNew(band_count) ==
    [bands |-> FlatBands(DefaultFrequencies(band_count)),
     enabled |-> TRUE,
     presets |-> BuiltinPresets,
     current_preset |-> Some("Flat"),
     history |-> FALSE]

\* set_band_gain(band_index, gain_db): [eq, ok]
SetBandGain(eq, band_index, gain_db) ==
    IF band_index >= Len(eq.bands)
    THEN [eq |-> eq, ok |-> FALSE]
    ELSE [eq |-> [eq EXCEPT !.bands[band_index + 1] = SetGain(@, gain_db),
                            !.current_preset = None],
          ok |-> TRUE]

\* set_bands(bands): [eq, ok]
SetBands(eq, bands) ==
    IF Len(bands) # Len(eq.bands)
    THEN [eq |-> eq, ok |-> FALSE]
    ELSE [eq |-> [eq EXCEPT !.bands = bands, !.current_preset = None],
          ok |-> TRUE]

\* apply_preset(preset_name): [eq, ok]
ApplyPreset(eq, preset_name) ==
    IF preset_name \in DOMAIN eq.presets
    THEN [eq |-> [eq EXCEPT !.bands = eq.presets[preset_name],
                            !.current_preset = Some(preset_name)],
          ok |-> TRUE]
    ELSE [eq |-> eq, ok |-> FALSE]

\* save_preset(name): [eq, ok]
SavePreset(eq, name) ==
    [eq |-> [eq EXCEPT !.presets =
                           [n \in DOMAIN eq.presets \cup {name} |->
                               IF n = name THEN eq.bands ELSE eq.presets[n]],
                       !.current_preset = Some(name)],
     ok |-> TRUE]

\* Equalizer::reset
EqualizerReset(eq) ==
    [eq EXCEPT !.bands = [i \in DOMAIN eq.bands |-> BandReset(eq.bands[i])],
               !.current_preset = Some("Flat"),
               !.history = FALSE]

(***************************************************************************)
(* DSPProcessor implementations and DSPChain.  A processor is a record     *)
(* [name, enabled, volume, gain_db, eq, added]: volume in tenths, gain_db  *)
(* in dB, eq the Equalizer of an "Equalizer" processor; added is the       *)
(* number of the add_processor call that inserted it (0 before that).      *)
(* A sample is [source, applied]: the input sample it started as and the   *)
(* processors applied to it so far, oldest first.                          *)
(***************************************************************************)
\* f32::clamp(0.0, 2.0), in tenths
ClampVolume(x) == IF x < 0 THEN 0 ELSE IF x > 20 THEN 20 ELSE x

\* VolumeProcessor::new(initial_volume), after set_enabled(enabled)
VolumeProcessorNew(initial_volume, enabled) ==
    [name |-> "Volume", enabled |-> enabled,
     volume |-> ClampVolume(initial_volume), gain_db |-> 0, eq |-> None,
     added |-> 0]

\* GainProcessor::new(gain_db), after set_enabled(enabled)
GainProcessorNew(gain_db, enabled) ==
    [name |-> "Gain", enabled |-> enabled, volume |-> 0, gain_db |-> gain_db,
     eq |-> None, added |-> 0]

\* PassthroughProcessor
PassthroughProcessorNew ==
    [name |-> "Passthrough", enabled |-> TRUE, volume |-> 0, gain_db |-> 0,
     eq |-> None, added |-> 0]

\* an Equalizer, boxed as a processor
EqualizerProcessor(e) ==
    [name |-> "Equalizer", enabled |-> e.enabled, volume |-> 0, gain_db |-> 0,
     eq |-> Some(e), added |-> 0]

\* DSPProcessor::is_enabled
IsEnabled(processor) ==
    CASE processor.name = "Passthrough" -> TRUE
      [] processor.name = "Equalizer" -> Unwrap(processor.eq).enabled
      [] OTHER -> processor.enabled

\* the sample after the processor's arithmetic
Applied(processor, sample) ==
    [sample EXCEPT !.applied = Append(@, [processor EXCEPT !.added = 0])]

\* Equalizer::new(44100, 2, 10): samples are interleaved over two channels
EqChannels == 2

\* Equalizer::process_sample filters when some band has |gain_db| > 0.01
HasActiveBand(e) == \E i \in DOMAIN e.bands : e.bands[i].gain_db # 0

\* DSPProcessor::process(input, output) for buffers of one length:
\* [processor, output]
ProcessorProcess(processor, input) ==
    CASE processor.name \in {"Volume", "Gain"} ->
           [processor |-> processor,
            output |-> [i \in DOMAIN input |-> Applied(processor, input[i])]]
      [] processor.name = "Passthrough" ->
           [processor |-> processor, output |-> input]
      [] processor.name = "Equalizer" ->
           LET e == Unwrap(processor.eq)
               samples_per_channel == Len(input) \div EqChannels
           IN IF ~e.enabled \/ ~HasActiveBand(e) \/ samples_per_channel = 0
              THEN [processor |-> processor, output |-> input]
              ELSE [processor |->
                        [processor EXCEPT !.eq = Some([e EXCEPT !.history = TRUE])],
                    output |->
                        [i \in DOMAIN input |->
                            IF i <= samples_per_channel * EqChannels
                            THEN Applied(processor, input[i])
                            ELSE input[i]]]

\* DSPProcessor::reset
ProcessorReset(processor) ==
    CASE processor.name = "Volume" -> [processor EXCEPT !.volume = 10]
      [] processor.name = "Gain" -> [processor EXCEPT !.gain_db = 0]
      [] processor.name = "Passthrough" -> processor
      [] processor.name = "Equalizer" ->
           [processor EXCEPT !.eq = Some(EqualizerReset(Unwrap(processor.eq)))]

\* DSPChain::new
DSPChainNew == [processors |-> <<>>, enabled |-> TRUE]

\* DSPChain::add_processor that puts the processor in front
AddProcessorFirst(ch, processor) ==
    [ch EXCEPT !.processors = <<processor>> \o @]

\* DSPChain::add_processor
AddProcessor(ch, processor) ==
    [ch EXCEPT !.processors = Append(@, processor)]

\* iter().position(|p| p.get_name() == name), from index i; 0 when none
RECURSIVE Position(_, _, _)
Position(processors, name, i) ==
    IF i > Len(processors)
    THEN 0
    ELSE IF processors[i].name = name
         THEN i
         ELSE Position(processors, name, i + 1)

\* Vec::remove(pos), pos from 1
RemoveAt(seq, pos) ==
    [i \in 1..(Len(seq) - 1) |-> IF i < pos THEN seq[i] ELSE seq[i + 1]]

\* DSPChain::remove_processor(name): [chain, removed]
RemoveProcessor(ch, name) ==
    LET pos == Position(ch.processors, name, 1)
    IN IF pos # 0
       THEN [chain |-> [ch EXCEPT !.processors = RemoveAt(@, pos)],
             removed |-> Some(ch.processors[pos])]
       ELSE [chain |-> ch, removed |-> None]

\* the loop of DSPChain::process from processor i: [processors, block]
RECURSIVE ProcessLoop(_, _, _)
ProcessLoop(processors, block, i) ==
    IF i > Len(processors)
    THEN [processors |-> processors, block |-> block]
    ELSE IF IsEnabled(processors[i])
         THEN LET r == ProcessorProcess(processors[i], block)
              IN ProcessLoop([processors EXCEPT ![i] = r.processor],
                             r.output, i + 1)
         ELSE ProcessLoop(processors, block, i + 1)

\* DSPChain::process(input, output): [chain, output]
ChainProcess(ch, input) ==
    IF ~ch.enabled
    THEN [chain |-> ch, output |-> input]
    ELSE LET r == ProcessLoop(ch.processors, input, 1)
         IN [chain |-> [ch EXCEPT !.processors = r.processors],
             output |-> r.block]

\* DSPChain::reset
ChainReset(ch) ==
    [ch EXCEPT !.processors =
                   [i \in DOMAIN ch.processors |-> ProcessorReset(ch.processors[i])]]

\* DSPChain::set_enabled
ChainSetEnabled(ch, enabled) == [ch EXCEPT !.enabled = enabled]

(***************************************************************************)
(* AudioOutput                                                             *)
(***************************************************************************)
\* AudioOutput::new: no stream, full volume, not playing
AudioOutputNew == [stream |-> None, volume |-> 100, is_playing |-> FALSE]

\* start() when build_output_stream succeeds (built) or fails: [out, ok]
AudioOutputStart(out, built) ==
    IF IsSome(out.stream)
    THEN [out |-> out, ok |-> TRUE]
    ELSE IF built
         THEN [out |-> [out EXCEPT !.stream = Some("running"),
                                   !.is_playing = TRUE],
               ok |-> TRUE]
         ELSE [out |-> out, ok |-> FALSE]

\* stop(): [out, ok]
AudioOutputStop(out) ==
    [out |-> [out EXCEPT !.stream = None, !.is_playing = FALSE], ok |-> TRUE]

\* pause() when the device pauses an open stream (paused) or refuses:
\* [out, ok]
AudioOutputPause(out, paused) ==
    IF IsSome(out.stream) /\ ~paused
    THEN [out |-> out, ok |-> FALSE]
    ELSE [out |-> [out EXCEPT !.stream = IF IsSome(@) THEN Some("paused") ELSE @,
                              !.is_playing = FALSE],
          ok |-> TRUE]

\* resume() when the device resumes an open stream (resumed) or refuses:
\* [out, ok]
AudioOutputResume(out, resumed) ==
    IF IsSome(out.stream) /\ ~resumed
    THEN [out |-> out, ok |-> FALSE]
    ELSE [out |-> [out EXCEPT !.stream = IF IsSome(@) THEN Some("running") ELSE @,
                              !.is_playing = TRUE],
          ok |-> TRUE]

\* the contents of data: &mut [T] when the device calls the callback
Blocks == {[i \in 1..BlockSamples |-> x] : x \in {0, MaxSample}}
BlockBytes == BlockSamples * DefaultBytesPerSample

\* the callback's loop: every sample times vol, or T::MID when vol is 0
Scale(data, vol) ==
    IF vol > 0
    THEN [i \in DOMAIN data |-> (data[i] * vol) \div 100]
    ELSE [i \in DOMAIN data |-> 0]

(***************************************************************************)
(* Channels                                                                *)
(***************************************************************************)
\* AudioEngine::new drops the receiver of its own event channel
EngineReceiverAlive == FALSE

\* event_sender.send(e) on the engine's channel; the Err is discarded
EngineSend(q, e) == IF EngineReceiverAlive THEN Append(q, e) ELSE q

\* what AudioEngine::event_receiver() delivers, in order
EventReceiver == playerEvents

(***************************************************************************)
(* Player::play / pause / stop: the match on self.state()                  *)
(***************************************************************************)
PlayOutcome(s) ==
    IF s \in {"Stopped", "Paused"} THEN [result |-> "Ok", set |-> Some("Playing")]
    ELSE IF s = "Playing" THEN [result |-> "Ok", set |-> None]
    ELSE [result |-> "InvalidState", set |-> None]

\* pause() that also accepts Stopped
PauseOutcomeFromStopped(s) ==
    IF s \in {"Playing", "Stopped"} THEN [result |-> "Ok", set |-> Some("Paused")]
    ELSE IF s = "Paused" THEN [result |-> "Ok", set |-> None]
    ELSE [result |-> "InvalidState", set |-> None]

PauseOutcome(s) ==
    IF s = "Playing" THEN [result |-> "Ok", set |-> Some("Paused")]
    ELSE IF s = "Paused" THEN [result |-> "Ok", set |-> None]
    ELSE [result |-> "InvalidState", set |-> None]

StopOutcome(s) ==
    IF s \in {"Playing", "Paused", "Buffering"}
    THEN [result |-> "Ok", set |-> Some("Stopped")]
    ELSE IF s = "Stopped" THEN [result |-> "Ok", set |-> None]
    ELSE [result |-> "InvalidState", set |-> None]

Outcome(o, s) ==
    IF o = "play" THEN PlayOutcome(s)
    ELSE IF o = "pause" THEN PauseOutcome(s)
    ELSE StopOutcome(s)

(***************************************************************************)
(* Initial state: AudioEngine::new, AudioEngine::start, Player::new        *)
(***************************************************************************)
EngineInit ==
    /\ state = "Stopped"
    /\ position = 0
    /\ current_format = None
    /\ playerEvents = <<>>
    /\ engineEvents = <<>>
    /\ decoder = None
    /\ output = None
    /\ buffer_pool = BufferPoolNew
    /\ pool_guard = FALSE
    /\ buffer = None
    /\ frames = None
    /\ written = 0
    /\ held = <<>>
    /\ audio_output = AudioOutputNew
    /\ volume_lock = None
    /\ callback = [pc |-> "idle", vol |-> 0, data |-> <<>>]
    /\ setter = [pc |-> "idle", vol |-> 0]
    /\ acked = None
    /\ response = None
    /\ ring_buffer = <<>>
    /\ clock = ClockNew
    /\ command_queue = <<>>
    /\ running = TRUE
    /\ now = 0
    /\ cmd = None
    /\ pre = None
    /\ scenario = 0
    /\ pc = [t \in Threads |-> IF t = Worker THEN "recv" ELSE "idle"]
    /\ op = [t \in Threads |-> "none"]
    /\ target = [t \in Threads |-> "Stopped"]
    /\ arg = [t \in Threads |-> 0]
    /\ result = [t \in Threads |-> "Ok"]

\* SharedRingBuffer::new and its two threads before their first call
RingInit ==
    /\ ring_lock = None
    /\ ring_writer = [pc |-> "idle", data |-> <<>>, issued |-> 0]
    /\ ring_reader = [pc |-> "idle", len |-> 0]
    /\ accepted = <<>>
    /\ delivered = <<>>
    /\ ring_call = [op |-> "new", len |-> 0, ret |-> 0, before |-> 0]

\* no Decoder of its own
DecoderInit ==
    /\ unit_decoder = None
    /\ out_frames = <<>>
    /\ decoder_call = [op |-> "new", ret |-> 0, before |-> 0, first |-> None,
                       sought |-> None]

\* no buffer of a caller's making was released
PoolCallInit ==
    pool_call = [op |-> "new", frames |-> 0, capacity |-> 0, before |-> 0,
                 after |-> 0]

\* no BitPerfectManager
BitPerfectInit ==
    /\ bitperfect = None
    /\ prepared = None
    /\ integrity = None
    /\ best = None

\* no DSPChain and no Equalizer of a caller's
DspInit ==
    /\ chain = None
    /\ chain_call = None
    /\ equalizer = None
    /\ eq_call = None

\* no get_stats call and no AudioOutput call was made
MiscInit ==
    /\ clock_stats = None
    /\ output_call = None

Init ==
    /\ EngineInit /\ RingInit /\ DecoderInit /\ PoolCallInit /\ BitPerfectInit
    /\ DspInit /\ MiscInit


(***************************************************************************)
(* Clients of the engine                                                   *)
(***************************************************************************)
HandlersIdle == \A h \in Handlers : pc[h] = "idle"

\* threads inside a Player call or a command
InFlight == Cardinality({t \in Threads : pc[t] \notin {"idle", "recv", "exited"}})

\* a new call is issued only while the calls in flight (at most two events
\* each) leave room in the channel
CanCall == Len(playerEvents) + 2 * InFlight < MaxEvents

\* what the claims compare a command's effects against
Snapshot ==
    [state |-> state, position |-> position, ring_buffer |-> ring_buffer,
     clock |-> clock, decoder |-> decoder, events |-> playerEvents]

\* LoadTrack(p) with p decodable, Play, Stop and nothing else since
\* construction: 0, 1, 2, 3 commands of it received; -1 once anything else
\* was issued
ScenarioStep(s, c) ==
    IF s = 0 /\ c.type = "LoadTrack" /\ c.path \in GoodPaths THEN 1
    ELSE IF s = 1 /\ c.type = "Play" THEN 2
    ELSE IF s = 2 /\ c.type = "Stop" THEN 3
    ELSE -1

\* command_sender().send(c), by a client that waits for the worker to be
\* back at recv_timeout before it sends the next command
SendCommand(c) ==
    /\ pc[Worker] = "recv"
    /\ command_queue = <<>>
    /\ now < MaxTime
    /\ CanCall
    /\ command_queue' = Append(command_queue, c)
    /\ UNCHANGED unitVars
    /\ UNCHANGED <<playerVars, engineVars, cmd, pre, scenario, pc, callVars>>

\* the same send by a client that also waits for the control-plane calls in
\* progress to return
SerialSendCommand(c) == HandlersIdle /\ SendCommand(c)

(***************************************************************************)
(* Player methods, one action per critical section of the state, position  *)
(* and channel locks; t is the calling thread                              *)
(***************************************************************************)
\* play / pause / stop: match self.state()
PlayerMatch(t) ==
    /\ pc[t] = "match"
    /\ LET o == Outcome(op[t], state)
       IN /\ result' = [result EXCEPT ![t] = o.result]
          /\ IF IsSome(o.set)
             THEN /\ target' = [target EXCEPT ![t] = Unwrap(o.set)]
                  /\ pc' = [pc EXCEPT ![t] = "set_read"]
             ELSE /\ target' = target
                  /\ pc' = [pc EXCEPT ![t] = "ret"]
    /\ arg' = [arg EXCEPT ![t] = 0]
    /\ UNCHANGED unitVars
    /\ UNCHANGED <<playerVars, engineVars, command_queue, cmd, pre, scenario, op>>

\* where a thread continues when set_state returns
AfterSetState(t) == IF op[t] = "stop" THEN "pos_write" ELSE "ret"

\* set_state: let old_state = *self.state.lock(); if old_state != new_state
SetStateRead(t) ==
    /\ pc[t] = "set_read"
    /\ pc' = [pc EXCEPT ![t] = IF state # target[t] THEN "set_write"
                                ELSE AfterSetState(t)]
    /\ UNCHANGED unitVars
    /\ UNCHANGED <<playerVars, engineVars, command_queue, cmd, pre, scenario,
                   callVars>>

\* set_state: *self.state.lock() = new_state
SetStateWrite(t) ==
    /\ pc[t] = "set_write"
    /\ state' = target[t]
    /\ pc' = [pc EXCEPT ![t] = "set_send"]
    /\ UNCHANGED unitVars
    /\ UNCHANGED <<position, playerEvents, engineVars, command_queue, cmd, pre,
                   scenario, callVars>>

\* set_state: event_sender.send(StateChanged(new_state))
SetStateSend(t) ==
    /\ pc[t] = "set_send"
    /\ playerEvents' = Append(playerEvents, StateChanged(target[t]))
    /\ pc' = [pc EXCEPT ![t] = AfterSetState(t)]
    /\ UNCHANGED unitVars
    /\ UNCHANGED <<state, position, engineVars, command_queue, cmd, pre,
                   scenario, callVars>>

\* set_position: *self.position.lock() = pos
SetPositionWrite(t) ==
    /\ pc[t] = "pos_write"
    /\ position' = arg[t]
    /\ pc' = [pc EXCEPT ![t] = "pos_send"]
    /\ UNCHANGED unitVars
    /\ UNCHANGED <<state, playerEvents, engineVars, command_queue, cmd, pre,
                   scenario, callVars>>

\* set_position: event_sender.send(PositionChanged(pos))
SetPositionSend(t) ==
    /\ pc[t] = "pos_send"
    /\ playerEvents' = Append(playerEvents, PositionChanged(arg[t]))
    /\ pc' = [pc EXCEPT ![t] = "ret"]
    /\ UNCHANGED unitVars
    /\ UNCHANGED <<state, position, engineVars, command_queue, cmd, pre,
                   scenario, callVars>>

PlayerStep(t) ==
    \/ PlayerMatch(t)
    \/ SetStateRead(t)
    \/ SetStateWrite(t)
    \/ SetStateSend(t)
    \/ SetPositionWrite(t)
    \/ SetPositionSend(t)

(***************************************************************************)
(* Control-plane threads                                                   *)
(***************************************************************************)
\* handle_play / handle_pause / handle_stop: self.engine.player().o()
HandlerCall(h, o) ==
    /\ pc[h] = "idle"
    /\ CanCall
    /\ op' = [op EXCEPT ![h] = o]
    /\ pc' = [pc EXCEPT ![h] = "match"]
    /\ scenario' = -1
    /\ UNCHANGED unitVars
    /\ UNCHANGED <<playerVars, engineVars, command_queue, cmd, pre, target, arg,
                   result>>

\* the same call by a control-plane client that issues one request at a
\* time, between the engine's commands
SerialHandlerCall(h, o) ==
    /\ pc[Worker] = "recv"
    /\ command_queue = <<>>
    /\ HandlersIdle
    /\ HandlerCall(h, o)

\* a client of the library calling Player::set_state(s) while the worker
\* waits for a command
SetStateCall(h, s) ==
    /\ pc[h] = "idle"
    /\ pc[Worker] = "recv"
    /\ command_queue = <<>>
    /\ HandlersIdle
    /\ CanCall
    /\ op' = [op EXCEPT ![h] = "set_state"]
    /\ target' = [target EXCEPT ![h] = s]
    /\ result' = [result EXCEPT ![h] = "Ok"]
    /\ pc' = [pc EXCEPT ![h] = "set_read"]
    /\ scenario' = -1
    /\ UNCHANGED unitVars
    /\ UNCHANGED <<playerVars, engineVars, command_queue, cmd, pre, arg>>

\* handle_load_track(p): the command is sent and success is answered at once
HandlerLoadTrack(h, p) ==
    /\ pc[h] = "idle"
    /\ Len(command_queue) < MaxQueue
    /\ now < MaxTime
    /\ command_queue' = Append(command_queue, Cmd("LoadTrack", p, 0))
    /\ acked' = Some(p)
    /\ response' = None
    /\ UNCHANGED unitVars
    /\ UNCHANGED <<playerVars, current_format, engineEvents, decoder, output,
                   held, outVars, buffer_pool, tickVars, ring_buffer, clock,
                   running, now, cmd, pre, scenario, pc, callVars>>

\* handle_get_format(): the Response is built from engine.current_format()
HandlerGetFormat(h) ==
    /\ pc[h] = "idle"
    /\ IsSome(acked)
    /\ response' = Some(current_format)
    /\ UNCHANGED unitVars
    /\ UNCHANGED <<playerVars, current_format, engineEvents, decoder, output,
                   held, outVars, acked, buffer_pool, tickVars, ring_buffer,
                   clock, running, now, command_queue, cmd, pre, scenario, pc,
                   callVars>>

\* the call returns; the handler builds its Response from result[h]
HandlerReturn(h) ==
    /\ h \in Handlers
    /\ pc[h] = "ret"
    /\ pc' = [pc EXCEPT ![h] = "idle"]
    /\ op' = [op EXCEPT ![h] = "none"]
    /\ target' = [target EXCEPT ![h] = "Stopped"]
    /\ arg' = [arg EXCEPT ![h] = 0]
    /\ result' = [result EXCEPT ![h] = "Ok"]
    /\ UNCHANGED unitVars
    /\ UNCHANGED <<playerVars, engineVars, command_queue, cmd, pre, scenario>>


(***************************************************************************)
(* engine_worker                                                           *)
(***************************************************************************)
CmdIs(t) == IsSome(cmd) /\ Unwrap(cmd).type = t

\* the Player method an EngineCommand's arm calls first
FirstCall(c) ==
    IF c.type = "LoadTrack" THEN "stop"
    ELSE IF c.type = "Play" THEN "play"
    ELSE IF c.type = "Pause" THEN "pause"
    ELSE IF c.type = "Stop" THEN "stop"
    ELSE IF c.type = "Seek" THEN "seek"
    ELSE "none"

\* receiver.recv_timeout returns Ok(cmd); the arm's first call is entered
\* (the SetVolume, SetFormat, EnableDSP and SetEQ arms only log; Shutdown
\* clears the loop flag)
WorkerRecv ==
    /\ pc[Worker] = "recv"
    /\ command_queue # <<>>
    /\ LET c == Head(command_queue)
       IN /\ cmd' = Some(c)
          /\ scenario' = ScenarioStep(scenario, c)
          /\ op' = [op EXCEPT ![Worker] = FirstCall(c)]
          /\ arg' = [arg EXCEPT ![Worker] = IF c.type = "Seek" THEN c.pos ELSE 0]
          /\ running' = IF c.type = "Shutdown" THEN FALSE ELSE running
          /\ pc' = [pc EXCEPT ![Worker] =
                        IF c.type \in {"LoadTrack", "Play", "Pause", "Stop"}
                        THEN "match"
                        ELSE IF c.type = "Seek" THEN "pos_write"
                        ELSE "tick"]
    /\ command_queue' = Tail(command_queue)
    /\ pre' = Some(Snapshot)
    /\ UNCHANGED unitVars
    /\ UNCHANGED <<playerVars, current_format, engineEvents, decoder, output, extVars,
                   buffer_pool, tickVars, ring_buffer, clock, now, target, result>>

\* receiver.recv_timeout returns Err(Timeout)
WorkerTimeout ==
    /\ pc[Worker] = "recv"
    /\ command_queue = <<>>
    /\ now < MaxTime
    /\ pc' = [pc EXCEPT ![Worker] = "tick"]
    /\ UNCHANGED unitVars
    /\ UNCHANGED <<playerVars, engineVars, command_queue, cmd, pre, scenario,
                   callVars>>

\* LoadTrack(path), after player.stop().ok()
WorkerLoadTrack ==
    /\ pc[Worker] = "ret"
    /\ CmdIs("LoadTrack")
    /\ LET path == Unwrap(cmd).path
           dec == DecoderNew(path)
       IN IF IsSome(dec)
          THEN /\ current_format' = Some(TrackFormat(path))
               /\ decoder' = dec
               /\ engineEvents' = EngineSend(engineEvents, TrackChanged(path))
          ELSE /\ engineEvents' = EngineSend(engineEvents, ErrorEvent("open failed"))
               /\ UNCHANGED unitVars
               /\ UNCHANGED <<current_format, decoder>>
    /\ pc' = [pc EXCEPT ![Worker] = "tick"]
    /\ UNCHANGED unitVars
    /\ UNCHANGED <<playerVars, output, extVars, buffer_pool, tickVars, ring_buffer, clock, running,
                   now, command_queue, cmd, pre, scenario, callVars>>

\* Play, after player.play()
WorkerPlay ==
    /\ pc[Worker] = "ret"
    /\ CmdIs("Play")
    /\ clock' = IF result[Worker] = "Ok" THEN ClockStart(clock, now) ELSE clock
    /\ pc' = [pc EXCEPT ![Worker] = "tick"]
    /\ UNCHANGED unitVars
    /\ UNCHANGED <<playerVars, current_format, engineEvents, decoder, output, extVars,
                   buffer_pool, tickVars, ring_buffer, running, now, command_queue, cmd,
                   pre, scenario, callVars>>

\* Pause, after player.pause()
WorkerPause ==
    /\ pc[Worker] = "ret"
    /\ CmdIs("Pause")
    /\ clock' = IF result[Worker] = "Ok" THEN ClockStop(clock) ELSE clock
    /\ pc' = [pc EXCEPT ![Worker] = "tick"]
    /\ UNCHANGED unitVars
    /\ UNCHANGED <<playerVars, current_format, engineEvents, decoder, output, extVars,
                   buffer_pool, tickVars, ring_buffer, running, now, command_queue, cmd,
                   pre, scenario, callVars>>

\* Stop, after player.stop()
WorkerStop ==
    /\ pc[Worker] = "ret"
    /\ CmdIs("Stop")
    /\ IF result[Worker] = "Ok"
       THEN /\ clock' = ClockReset(ClockStop(clock), now)
            /\ ring_buffer' = RingClear(ring_buffer)
       ELSE UNCHANGED <<clock, ring_buffer>>
    /\ pc' = [pc EXCEPT ![Worker] = "tick"]
    /\ UNCHANGED unitVars
    /\ UNCHANGED <<playerVars, current_format, engineEvents, decoder, output, extVars,
                   buffer_pool, tickVars, running, now, command_queue, cmd, pre, scenario,
                   callVars>>

\* Seek(pos), after player.seek(pos)
WorkerSeek ==
    /\ pc[Worker] = "ret"
    /\ CmdIs("Seek")
    /\ pc' = [pc EXCEPT ![Worker] = "tick"]
    /\ UNCHANGED unitVars
    /\ UNCHANGED <<playerVars, engineVars, command_queue, cmd, pre, scenario,
                   callVars>>

\* ring_buffer.len() / capacity < target_buffer_level
BelowTarget(ring) == Len(ring) * TargetDen < TargetNum * RingCapacity

\* the round's test before it decodes: player.is_playing(), the fill level
\* below the target and a decoder open; the drift check after it only logs
ProducerTick ==
    /\ pc[Worker] = "tick"
    /\ pc' = [pc EXCEPT ![Worker] =
                  IF state = "Playing" /\ BelowTarget(ring_buffer) /\ IsSome(decoder)
                  THEN "acquire" ELSE "sleep"]
    /\ UNCHANGED unitVars
    /\ UNCHANGED <<playerVars, engineVars, command_queue, cmd, pre, scenario,
                   callVars>>

\* buffer_pool.lock() returns only while no guard of the mutex is alive (a
\* parking_lot Mutex is not reentrant)
PoolLockFree(guard) == ~guard

\* buffer_pool.lock().acquire() as the scrutinee of the match, whose guard
\* lives until the match ends, and buffer_pool.lock().release(buffer) inside
\* the match's Some arm
PoolLockCall ==
    /\ pc[Worker] \in {"acquire", "release"}
    /\ IF pc[Worker] = "acquire"
       THEN /\ PoolLockFree(pool_guard)
            /\ LET acq == PoolAcquire(buffer_pool)
               IN /\ buffer_pool' = acq[1]
                  /\ buffer' = acq[2]
                  /\ pool_guard' = IsSome(acq[2])
                  /\ pc' = [pc EXCEPT ![Worker] =
                                IF IsSome(acq[2]) THEN "decode" ELSE "sleep"]
       ELSE /\ PoolLockFree(pool_guard)
            /\ buffer_pool' = PoolRelease(buffer_pool, Unwrap(buffer))
            /\ buffer' = None
            /\ pool_guard' = FALSE
            /\ pc' = [pc EXCEPT ![Worker] = "sleep"]
    /\ UNCHANGED unitVars
    /\ UNCHANGED <<playerVars, current_format, engineEvents, decoder, output,
                   extVars, frames, written, ring_buffer, clock, running, now,
                   command_queue, cmd, pre, scenario, callVars>>

\* dec.decode_next(&mut buffer) and, if frames > 0,
\* ring_buffer.write(buffer.data())
ProducerDecode ==
    /\ pc[Worker] = "decode"
    /\ LET d == DecodeNext(Unwrap(decoder), Unwrap(buffer))
           ring == IF d.frames > 0 THEN RingWrite(ring_buffer, d.data)
                   ELSE ring_buffer
       IN /\ decoder' = Some(d.dec)
          /\ buffer' = Some([Unwrap(buffer) EXCEPT !.data = d.data])
          /\ frames' = Some(d.frames)
          /\ ring_buffer' = ring
          /\ written' = Len(ring) - Len(ring_buffer)
    /\ pc' = [pc EXCEPT ![Worker] = "release"]
    /\ UNCHANGED unitVars
    /\ UNCHANGED <<playerVars, current_format, engineEvents, output, extVars,
                   buffer_pool, pool_guard, clock, running, now, command_queue,
                   cmd, pre, scenario, callVars>>

\* thread::sleep(5 ms) and the test of the loop flag
WorkerSleep ==
    /\ pc[Worker] = "sleep"
    /\ now' = now + 1
    /\ cmd' = None
    /\ pre' = None
    /\ frames' = None
    /\ written' = 0
    /\ op' = [op EXCEPT ![Worker] = "none"]
    /\ target' = [target EXCEPT ![Worker] = "Stopped"]
    /\ arg' = [arg EXCEPT ![Worker] = 0]
    /\ result' = [result EXCEPT ![Worker] = "Ok"]
    /\ pc' = [pc EXCEPT ![Worker] = IF running THEN "recv" ELSE "exited"]
    /\ UNCHANGED unitVars
    /\ UNCHANGED <<playerVars, current_format, engineEvents, decoder, output,
                   extVars, buffer_pool, pool_guard, buffer, ring_buffer, clock,
                   running, command_queue, scenario>>

(***************************************************************************)
(* Callers of a BufferPool                                                 *)
(***************************************************************************)
\* let b = pool.acquire(): the caller keeps what it got
PoolAcquireCall ==
    /\ LET acq == PoolAcquire(buffer_pool)
       IN /\ buffer_pool' = acq[1]
          /\ buffer' = acq[2]
          /\ held' = IF IsSome(acq[2]) THEN Append(held, Unwrap(acq[2]))
                     ELSE held
    /\ UNCHANGED unitVars
    /\ UNCHANGED <<playerVars, current_format, engineEvents, decoder, output,
                   outVars, controlVars, pool_guard, frames, written,
                   ring_buffer, clock, running, now, command_queue, cmd, pre,
                   scenario, pc, callVars>>

\* the holder of held[i] writes the bytes of frame f at frame slot at
\* (data_mut())
HolderWrite(i, at, f) ==
    /\ i \in 1..Len(held)
    /\ held' = [held EXCEPT ![i].data = CopyFrames(@, <<f>>, at)]
    /\ UNCHANGED unitVars
    /\ UNCHANGED <<playerVars, current_format, engineEvents, decoder, output,
                   outVars, controlVars, buffer_pool, tickVars, ring_buffer,
                   clock, running, now, command_queue, cmd, pre, scenario, pc,
                   callVars>>

\* pool.release(held[i]): the buffer moves back into the pool
PoolReleaseCall(i) ==
    /\ i \in 1..Len(held)
    /\ Len(buffer_pool.buffers) < MaxSlots
    /\ buffer_pool' = PoolRelease(buffer_pool, held[i])
    /\ held' = [k \in 1..(Len(held) - 1) |-> IF k < i THEN held[k] ELSE held[k + 1]]
    /\ UNCHANGED unitVars
    /\ UNCHANGED <<playerVars, current_format, engineEvents, decoder, output,
                   outVars, controlVars, tickVars, ring_buffer, clock, running,
                   now, command_queue, cmd, pre, scenario, pc, callVars>>

\* the formats and frame counts of the buffers callers make themselves
CallerFormats ==
    {AudioFormatNew(44100, ch, sf) : ch \in {1, 2}, sf \in {"S16", "S32"}}
CallerFrames == {1, BufferSizeFrames, 2 * BufferSizeFrames}

\* pool.release(AudioBuffer::new(fmt, n))
PoolReleaseNew(fmt, n) ==
    /\ Len(buffer_pool.buffers) < MaxSlots
    /\ buffer_pool' = PoolRelease(buffer_pool, AudioBufferOf(fmt, n))
    /\ pool_call' = [op |-> "release", frames |-> n,
                     capacity |-> Capacity(AudioBufferOf(fmt, n)),
                     before |-> AvailableCount(buffer_pool),
                     after |-> AvailableCount(buffer_pool')]
    /\ UNCHANGED <<ringVars, decoderVars, bitperfectVars, dspVars, miscVars>>
    /\ UNCHANGED <<playerVars, current_format, engineEvents, decoder, output,
                   extVars, tickVars, ring_buffer, clock, running, now,
                   command_queue, cmd, pre, scenario, pc, callVars>>

(***************************************************************************)
(* SharedRingBuffer: one writer thread and one reader thread               *)
(***************************************************************************)
RingWriter == "writer"
RingReader == "reader"

\* the lengths of the slices the two threads pass
RingSizes == {1, ChunkLen, RingCapacity}

\* the writer calls write(data) with the next n bytes of its stream
RingWriteCall(n) ==
    /\ ring_writer.pc = "idle"
    /\ ring_writer.issued + n <= MaxIssued
    /\ ring_writer' = [pc |-> "lock",
                       data |-> [k \in 1..n |-> ring_writer.issued + k],
                       issued |-> ring_writer.issued + n]
    /\ UNCHANGED <<ring_lock, ring_reader, accepted, delivered, ring_call,
                   ring_buffer>>
    /\ UNCHANGED <<decoderVars, pool_call, bitperfectVars, dspVars, miscVars>>
    /\ UNCHANGED <<playerVars, current_format, engineEvents, decoder, output,
                   extVars, buffer_pool, tickVars, clock, running, now,
                   command_queue, cmd, pre, scenario, pc, callVars>>

\* the reader calls read(buf) with a buf of n bytes
RingReadCall(n) ==
    /\ ring_reader.pc = "idle"
    /\ ring_reader' = [pc |-> "lock", len |-> n]
    /\ UNCHANGED <<ring_lock, ring_writer, accepted, delivered, ring_call,
                   ring_buffer>>
    /\ UNCHANGED <<decoderVars, pool_call, bitperfectVars, dspVars, miscVars>>
    /\ UNCHANGED <<playerVars, current_format, engineEvents, decoder, output,
                   extVars, buffer_pool, tickVars, clock, running, now,
                   command_queue, cmd, pre, scenario, pc, callVars>>

\* self.inner.lock(): a thread enters the mutex when nobody is inside
RingLock(t) ==
    /\ ring_lock = None
    /\ IF t = RingWriter
       THEN /\ ring_writer.pc = "lock"
            /\ ring_writer' = [ring_writer EXCEPT !.pc = "locked"]
            /\ UNCHANGED ring_reader
       ELSE /\ ring_reader.pc = "lock"
            /\ ring_reader' = [ring_reader EXCEPT !.pc = "locked"]
            /\ UNCHANGED ring_writer
    /\ ring_lock' = Some(t)
    /\ UNCHANGED <<accepted, delivered, ring_call, ring_buffer>>
    /\ UNCHANGED <<decoderVars, pool_call, bitperfectVars, dspVars, miscVars>>
    /\ UNCHANGED <<playerVars, current_format, engineEvents, decoder, output,
                   extVars, buffer_pool, tickVars, clock, running, now,
                   command_queue, cmd, pre, scenario, pc, callVars>>

\* the writer, inside the mutex, runs AudioRingBuffer::write and leaves
RingWriteLocked ==
    /\ ring_writer.pc = "locked"
    /\ ring_lock = Some(RingWriter)
    /\ LET ret == RingWritten(ring_buffer, ring_writer.data)
       IN /\ ring_buffer' = RingWrite(ring_buffer, ring_writer.data)
          /\ accepted' = accepted \o SubSeq(ring_writer.data, 1, ret)
          /\ ring_call' = [op |-> "write", len |-> Len(ring_writer.data),
                           ret |-> ret, before |-> RingLen(ring_buffer)]
    /\ ring_writer' = [ring_writer EXCEPT !.pc = "idle", !.data = <<>>]
    /\ ring_lock' = None
    /\ UNCHANGED <<ring_reader, delivered>>
    /\ UNCHANGED <<decoderVars, pool_call, bitperfectVars, dspVars, miscVars>>
    /\ UNCHANGED <<playerVars, current_format, engineEvents, decoder, output,
                   extVars, buffer_pool, tickVars, clock, running, now,
                   command_queue, cmd, pre, scenario, pc, callVars>>

\* the reader, inside the mutex, runs AudioRingBuffer::read and leaves
RingReadLocked ==
    /\ ring_reader.pc = "locked"
    /\ ring_lock = Some(RingReader)
    /\ LET got == RingRead(ring_buffer, ring_reader.len)
       IN /\ ring_buffer' = got.ring
          /\ delivered' = delivered \o got.bytes
          /\ ring_call' = [op |-> "read", len |-> ring_reader.len,
                           ret |-> Len(got.bytes),
                           before |-> RingLen(ring_buffer)]
    /\ ring_reader' = [ring_reader EXCEPT !.pc = "idle", !.len = 0]
    /\ ring_lock' = None
    /\ UNCHANGED <<ring_writer, accepted>>
    /\ UNCHANGED <<decoderVars, pool_call, bitperfectVars, dspVars, miscVars>>
    /\ UNCHANGED <<playerVars, current_format, engineEvents, decoder, output,
                   extVars, buffer_pool, tickVars, clock, running, now,
                   command_queue, cmd, pre, scenario, pc, callVars>>

(***************************************************************************)
(* A Decoder and its caller                                                *)
(***************************************************************************)
\* the containers: up to MaxPackets packets of 1..MaxPacketFrames frames
PacketSeqs ==
    UNION {[1..n -> 1..MaxPacketFrames] : n \in 1..MaxPackets}

\* the frame counts of the buffers the caller passes to decode_next
BufferFrames == 1..(BufferSizeFrames + 1)

\* the source frames a buffer holds after decode_next returned n
FramesIn(data, n) == [k \in 1..n |-> data[(k - 1) * BytesPerFrame + 1] - 1]

\* Decoder::new on a container of the caller's choice
InitDecoder ==
    /\ EngineInit /\ RingInit /\ PoolCallInit /\ BitPerfectInit
    /\ DspInit /\ MiscInit
    /\ \E pk \in PacketSeqs : unit_decoder = Some(DecoderOf("track.flac", pk))
    /\ out_frames = <<>>
    /\ decoder_call = [op |-> "new", ret |-> 0, before |-> 0, first |-> None,
                       sought |-> None]

\* decoder.decode_next(&mut AudioBuffer::new(format, n))
DecodeNextCall(n) ==
    /\ IsSome(unit_decoder)
    /\ LET dec == Unwrap(unit_decoder)
           d == DecodeNext(dec, AudioBufferNew(n))
           got == FramesIn(d.data, d.frames)
       IN /\ unit_decoder' = Some(d.dec)
          /\ out_frames' = out_frames \o got
          /\ decoder_call' = [op |-> "decode_next", ret |-> d.frames,
                              before |-> dec.current_frame,
                              first |-> IF d.frames > 0 THEN Some(got[1])
                                        ELSE None,
                              sought |-> IF decoder_call.op = "seek"
                                         THEN decoder_call.sought ELSE None]
    /\ UNCHANGED <<ringVars, pool_call, bitperfectVars, dspVars, miscVars>>
    /\ UNCHANGED <<playerVars, engineVars, command_queue, cmd, pre, scenario,
                   pc, callVars>>

\* decoder.seek(f), for a frame f of the track
SeekCall(f) ==
    /\ IsSome(unit_decoder)
    /\ LET dec == Unwrap(unit_decoder)
       IN /\ f < PacketStart(dec.packets, Len(dec.packets))
          /\ unit_decoder' = Some(DecoderSeek(dec, f))
          /\ decoder_call' = [op |-> "seek", ret |-> 0,
                              before |-> dec.current_frame, first |-> None,
                              sought |-> Some(f)]
    /\ UNCHANGED <<out_frames, ringVars, pool_call, bitperfectVars,
                   dspVars, miscVars>>
    /\ UNCHANGED <<playerVars, engineVars, command_queue, cmd, pre, scenario,
                   pc, callVars>>

\* decoder.reset()
ResetCall ==
    /\ IsSome(unit_decoder)
    /\ LET dec == Unwrap(unit_decoder)
       IN /\ unit_decoder' = Some(DecoderReset(dec))
          /\ decoder_call' = [op |-> "reset", ret |-> 0,
                              before |-> dec.current_frame, first |-> None,
                              sought |-> None]
    /\ UNCHANGED <<out_frames, ringVars, pool_call, bitperfectVars,
                   dspVars, miscVars>>
    /\ UNCHANGED <<playerVars, engineVars, command_queue, cmd, pre, scenario,
                   pc, callVars>>

(***************************************************************************)
(* A BitPerfectManager and its caller                                      *)
(***************************************************************************)
\* the devices a host can enumerate: no config at all, one rate of 16-bit
\* integer stereo, or a range of rates of 32-bit float stereo
DeviceKinds ==
    {[configs |-> cs] :
        cs \in {{}, {ConfigRange(2, 44100, 44100, "I16")},
                {ConfigRange(2, 48000, 48000, "I16")},
                {ConfigRange(2, 44100, 48000, "F32")}}}

\* DeviceManager::refresh_devices: the devices, and the index of the one
\* with the default device's name, if it was listed
DeviceManagers ==
    UNION {{[devices |-> ds, default_device |-> dd] :
               ds \in [1..n -> DeviceKinds],
               dd \in {None} \cup {Some(i) : i \in 1..n}} : n \in 0..2}

BitPerfectConfigs ==
    [mode : BitPerfectModes, prefer_integer : BOOLEAN,
     allow_resampling : BOOLEAN]

SourceFormats ==
    {AudioFormatNew(rate, ch, sf) :
        rate \in {44100, 48000}, ch \in {2}, sf \in {"S16", "F32"}}

\* BitPerfectManager::new for a config and a host of the caller's choice
InitBitPerfect ==
    /\ EngineInit /\ RingInit /\ DecoderInit /\ PoolCallInit
    /\ DspInit /\ MiscInit
    /\ \E config \in BitPerfectConfigs, dm \in DeviceManagers :
          bitperfect = Some(BitPerfectManagerNew(config, dm))
    /\ prepared = None
    /\ integrity = None
    /\ best = None

\* manager.prepare_format(source)
PrepareFormatCall(source) ==
    /\ IsSome(bitperfect)
    /\ LET p == PrepareFormat(Unwrap(bitperfect), source)
       IN /\ bitperfect' = Some(p.mgr)
          /\ prepared' = Some([source |-> source, result |-> p.result,
                               before |->
                                 [current_format |->
                                      Unwrap(bitperfect).current_format,
                                  is_bitperfect |->
                                      Unwrap(bitperfect).is_bitperfect]])
    /\ integrity' = None
    /\ best' = None
    /\ UNCHANGED <<ringVars, decoderVars, pool_call, dspVars, miscVars>>
    /\ UNCHANGED <<playerVars, engineVars, command_queue, cmd, pre, scenario,
                   pc, callVars>>

\* manager.check_integrity()
CheckIntegrityCall ==
    /\ IsSome(bitperfect)
    /\ integrity' = Some(CheckIntegrity(Unwrap(bitperfect)))
    /\ best' = None
    /\ UNCHANGED <<bitperfect, prepared>>
    /\ UNCHANGED <<ringVars, decoderVars, pool_call, dspVars, miscVars>>
    /\ UNCHANGED <<playerVars, engineVars, command_queue, cmd, pre, scenario,
                   pc, callVars>>

\* manager.get_device_manager().find_best_device_for_format(&fmt) and
\* manager.find_best_device(&fmt)
FindBestDeviceCall(fmt) ==
    /\ IsSome(bitperfect)
    /\ best' = Some([format |-> fmt,
                     device |-> FindBestDeviceForFormat(
                                    Unwrap(bitperfect).device_manager, fmt),
                     index |-> FindBestDevice(Unwrap(bitperfect), fmt)])
    /\ integrity' = None
    /\ UNCHANGED <<bitperfect, prepared>>
    /\ UNCHANGED <<ringVars, decoderVars, pool_call, dspVars, miscVars>>
    /\ UNCHANGED <<playerVars, engineVars, command_queue, cmd, pre, scenario,
                   pc, callVars>>

(***************************************************************************)
(* An Equalizer and its caller                                             *)
(***************************************************************************)
\* the arguments the caller passes
BandCounts == {5, 10}
BandIndexes == {0, 1, 10}
GainArguments == {-30, 3, 30}
BandVectors ==
    {[i \in 1..n |-> EQBandNew(1000, g, 1000)] : n \in BandCounts, g \in {0, 30}}
PresetNames == {"Bass Boost", "Rock", "Mine", "Missing"}

\* Equalizer::new for a band count of the caller's choice
InitEqualizer ==
    /\ EngineInit /\ RingInit /\ DecoderInit /\ PoolCallInit /\ BitPerfectInit
    /\ MiscInit
    /\ chain = None
    /\ chain_call = None
    /\ \E n \in BandCounts : equalizer = Some(EqualizerNew(n))
    /\ eq_call = None

\* what every call on the Equalizer leaves alone
EqualizerFrame ==
    /\ UNCHANGED <<chain, chain_call>>
    /\ UNCHANGED <<ringVars, decoderVars, pool_call, bitperfectVars, miscVars>>
    /\ UNCHANGED <<playerVars, engineVars, command_queue, cmd, pre, scenario,
                   pc, callVars>>

\* eq.set_band_gain(i, g)
SetBandGainCall(i, g) ==
    /\ IsSome(equalizer)
    /\ LET r == SetBandGain(Unwrap(equalizer), i, g)
       IN /\ equalizer' = Some(r.eq)
          /\ eq_call' = Some([op |-> "set_band_gain", index |-> i, gain |-> g,
                              ok |-> r.ok])
    /\ EqualizerFrame

\* eq.set_bands(bands)
SetBandsCall(bands) ==
    /\ IsSome(equalizer)
    /\ LET r == SetBands(Unwrap(equalizer), bands)
       IN /\ equalizer' = Some(r.eq)
          /\ eq_call' = Some([op |-> "set_bands", index |-> 0, gain |-> 0,
                              ok |-> r.ok])
    /\ EqualizerFrame

\* eq.apply_preset(name)
ApplyPresetCall(name) ==
    /\ IsSome(equalizer)
    /\ LET r == ApplyPreset(Unwrap(equalizer), name)
       IN /\ equalizer' = Some(r.eq)
          /\ eq_call' = Some([op |-> "apply_preset", index |-> 0, gain |-> 0,
                              ok |-> r.ok])
    /\ EqualizerFrame

\* eq.save_preset("Mine")
SavePresetCall ==
    /\ IsSome(equalizer)
    /\ LET r == SavePreset(Unwrap(equalizer), "Mine")
       IN /\ equalizer' = Some(r.eq)
          /\ eq_call' = Some([op |-> "save_preset", index |-> 0, gain |-> 0,
                              ok |-> r.ok])
    /\ EqualizerFrame

\* eq.reset()
EqualizerResetCall ==
    /\ IsSome(equalizer)
    /\ equalizer' = Some(EqualizerReset(Unwrap(equalizer)))
    /\ eq_call' = Some([op |-> "reset", index |-> 0, gain |-> 0, ok |-> TRUE])
    /\ EqualizerFrame

(***************************************************************************)
(* A DSPChain and its caller                                               *)
(***************************************************************************)
\* add_processor calls made on one chain
MaxAdds == 3

\* the processors the caller builds
Processors ==
    {VolumeProcessorNew(5, TRUE), VolumeProcessorNew(30, FALSE),
     GainProcessorNew(6, TRUE), PassthroughProcessorNew,
     EqualizerProcessor(ApplyPreset(EqualizerNew(10), "Bass Boost").eq),
     EqualizerProcessor([EqualizerNew(10) EXCEPT !.enabled = FALSE])}

\* the names the caller removes
ProcessorNames == {"Volume", "Gain", "Equalizer", "Resampler"}

\* an input block of BlockSamples samples
InputBlock == [i \in 1..BlockSamples |-> [source |-> i, applied |-> <<>>]]

\* DSPChain::new; added counts the add_processor calls
InitChain ==
    /\ EngineInit /\ RingInit /\ DecoderInit /\ PoolCallInit /\ BitPerfectInit
    /\ MiscInit
    /\ chain = Some(DSPChainNew)
    /\ chain_call = Some([op |-> "new", before |-> DSPChainNew,
                          input |-> <<>>, output |-> <<>>, added |-> 0])
    /\ equalizer = None
    /\ eq_call = None

\* what every call on the DSPChain leaves alone
ChainFrame ==
    /\ UNCHANGED <<equalizer, eq_call>>
    /\ UNCHANGED <<ringVars, decoderVars, pool_call, bitperfectVars, miscVars>>
    /\ UNCHANGED <<playerVars, engineVars, command_queue, cmd, pre, scenario,
                   pc, callVars>>

\* chain.add_processor(Box::new(processor))
AddProcessorCall(processor) ==
    /\ IsSome(chain)
    /\ Unwrap(chain_call).added < MaxAdds
    /\ LET n == Unwrap(chain_call).added + 1
       IN /\ chain' = Some(AddProcessor(Unwrap(chain),
                                        [processor EXCEPT !.added = n]))
          /\ chain_call' = Some([op |-> "add_processor",
                                 before |-> Unwrap(chain),
                                 input |-> <<>>, output |-> <<>>, added |-> n])
    /\ ChainFrame

\* chain.remove_processor(name)
RemoveProcessorCall(name) ==
    /\ IsSome(chain)
    /\ chain' = Some(RemoveProcessor(Unwrap(chain), name).chain)
    /\ chain_call' = Some([op |-> "remove_processor", before |-> Unwrap(chain),
                           input |-> <<>>, output |-> <<>>,
                           added |-> Unwrap(chain_call).added])
    /\ ChainFrame

\* chain.set_enabled(enabled)
ChainSetEnabledCall(enabled) ==
    /\ IsSome(chain)
    /\ chain' = Some(ChainSetEnabled(Unwrap(chain), enabled))
    /\ chain_call' = Some([op |-> "set_enabled", before |-> Unwrap(chain),
                           input |-> <<>>, output |-> <<>>,
                           added |-> Unwrap(chain_call).added])
    /\ ChainFrame

\* chain.process(&input, &mut output)
ChainProcessCall(input) ==
    /\ IsSome(chain)
    /\ LET r == ChainProcess(Unwrap(chain), input)
       IN /\ chain' = Some(r.chain)
          /\ chain_call' = Some([op |-> "process", before |-> Unwrap(chain),
                                 input |-> input, output |-> r.output,
                                 added |-> Unwrap(chain_call).added])
    /\ ChainFrame

\* chain.reset()
ChainResetCall ==
    /\ IsSome(chain)
    /\ chain' = Some(ChainReset(Unwrap(chain)))
    /\ chain_call' = Some([op |-> "reset", before |-> Unwrap(chain),
                           input |-> <<>>, output |-> <<>>,
                           added |-> Unwrap(chain_call).added])
    /\ ChainFrame

(***************************************************************************)
(* An AudioClock and its caller                                            *)
(***************************************************************************)
\* update() calls made on one started clock
MaxUpdates == 2

\* the frame counts the caller reports
UpdateFrames == {0, ClockRate, 2 * ClockRate + 1}

\* AudioClock::new; clock_stats holds the last call, the update() calls made
\* since the last start() and what the last get_stats() returned
InitClock ==
    /\ EngineInit /\ RingInit /\ DecoderInit /\ PoolCallInit /\ BitPerfectInit
    /\ DspInit
    /\ clock_stats = Some([op |-> "new", updates |-> 0, at |-> 0, stats |-> None])
    /\ output_call = None

\* what every call on the AudioClock leaves alone
ClockFrame ==
    /\ UNCHANGED <<ringVars, decoderVars, pool_call, bitperfectVars, dspVars,
                   output_call>>
    /\ UNCHANGED <<playerVars, current_format, engineEvents, decoder, output,
                   extVars, buffer_pool, tickVars, ring_buffer, running,
                   command_queue, cmd, pre, scenario, pc, callVars>>

\* clock.start()
ClockStartCall ==
    /\ clock' = ClockStart(clock, now)
    /\ clock_stats' = Some([op |-> "start", updates |-> 0, at |-> now,
                            stats |-> None])
    /\ UNCHANGED now
    /\ ClockFrame

\* clock.stop()
ClockStopCall ==
    /\ clock' = ClockStop(clock)
    /\ clock_stats' = Some([Unwrap(clock_stats) EXCEPT !.op = "stop",
                                                       !.at = now,
                                                       !.stats = None])
    /\ UNCHANGED now
    /\ ClockFrame

\* clock.update(n)
ClockUpdateCall(n) ==
    /\ Unwrap(clock_stats).updates < MaxUpdates
    /\ clock' = ClockUpdate(clock, n, now)
    /\ clock_stats' = Some([Unwrap(clock_stats) EXCEPT !.op = "update",
                                                       !.updates = @ + 1,
                                                       !.at = now,
                                                       !.stats = None])
    /\ UNCHANGED now
    /\ ClockFrame

\* clock.reset()
ClockResetCall ==
    /\ clock' = ClockReset(clock, now)
    /\ clock_stats' = Some([Unwrap(clock_stats) EXCEPT !.op = "reset",
                                                       !.at = now,
                                                       !.stats = None])
    /\ UNCHANGED now
    /\ ClockFrame

\* clock.get_stats()
ClockGetStatsCall ==
    /\ clock_stats' = Some([Unwrap(clock_stats) EXCEPT
                                !.op = "get_stats",
                                !.at = now,
                                !.stats = ClockGetStats(clock, now)])
    /\ UNCHANGED <<clock, now>>
    /\ ClockFrame

\* time passes between two calls
ClockTime ==
    /\ now < MaxTime
    /\ now' = now + 1
    /\ UNCHANGED <<clock, clock_stats>>
    /\ ClockFrame

(***************************************************************************)
(* An AudioOutput and the calls of its owner                               *)
(***************************************************************************)
\* start, pause, resume and stop calls made on one AudioOutput
MaxCalls == 4

\* AudioOutput::new; output_call holds the last call, whether it returned
\* Ok and the number of calls made
InitLifecycle ==
    /\ EngineInit /\ RingInit /\ DecoderInit /\ PoolCallInit /\ BitPerfectInit
    /\ DspInit
    /\ clock_stats = None
    /\ output_call = Some([op |-> "new", ok |-> TRUE, calls |-> 0])

\* what every call of the owner leaves alone
LifecycleFrame ==
    /\ UNCHANGED <<ringVars, decoderVars, pool_call, bitperfectVars, dspVars,
                   clock_stats>>
    /\ UNCHANGED <<playerVars, current_format, engineEvents, decoder, output,
                   held, callback, controlVars, buffer_pool, tickVars,
                   ring_buffer, clock, running, now, command_queue, cmd, pre,
                   scenario, pc, callVars>>

\* the record of the call o that returned r, after the calls made so far
Returned(o, r) ==
    Some([op |-> o, ok |-> r.ok, calls |-> Unwrap(output_call).calls + 1])

\* output.start()
OutputStartCall(built) ==
    /\ Unwrap(output_call).calls < MaxCalls
    /\ LET r == AudioOutputStart(audio_output, built)
       IN /\ audio_output' = r.out
          /\ output_call' = Returned("start", r)
    /\ UNCHANGED <<volume_lock, setter>>
    /\ LifecycleFrame

\* output.stop()
OutputStopCall ==
    /\ Unwrap(output_call).calls < MaxCalls
    /\ LET r == AudioOutputStop(audio_output)
       IN /\ audio_output' = r.out
          /\ output_call' = Returned("stop", r)
    /\ UNCHANGED <<volume_lock, setter>>
    /\ LifecycleFrame

\* output.pause()
OutputPauseCall(paused) ==
    /\ Unwrap(output_call).calls < MaxCalls
    /\ LET r == AudioOutputPause(audio_output, paused)
       IN /\ audio_output' = r.out
          /\ output_call' = Returned("pause", r)
    /\ UNCHANGED <<volume_lock, setter>>
    /\ LifecycleFrame

\* output.resume()
OutputResumeCall(resumed) ==
    /\ Unwrap(output_call).calls < MaxCalls
    /\ LET r == AudioOutputResume(audio_output, resumed)
       IN /\ audio_output' = r.out
          /\ output_call' = Returned("resume", r)
    /\ UNCHANGED <<volume_lock, setter>>
    /\ LifecycleFrame

(***************************************************************************)
(* AudioOutput: its owner's calls and the device's callback                *)
(***************************************************************************)
\* start(): build the stream, self.stream = Some(stream), is_playing = true
OutputStart ==
    /\ audio_output.stream = None
    /\ audio_output' = [audio_output EXCEPT !.stream = Some("running"),
                                            !.is_playing = TRUE]
    /\ UNCHANGED unitVars
    /\ UNCHANGED <<playerVars, current_format, engineEvents, decoder, output,
                   held, volume_lock, callback, setter, controlVars,
                   buffer_pool, tickVars, ring_buffer, clock, running, now,
                   command_queue, cmd, pre, scenario, pc, callVars>>

\* set_volume(v): volume.clamp(0.0, 1.0) and self.volume.lock()
SetVolumeLock(v) ==
    /\ setter.pc = "idle"
    /\ volume_lock = None
    /\ volume_lock' = Some(Control)
    /\ setter' = [pc |-> "locked", vol |-> Clamp(v)]
    /\ UNCHANGED unitVars
    /\ UNCHANGED <<playerVars, current_format, engineEvents, decoder, output,
                   held, audio_output, callback, controlVars, buffer_pool,
                   tickVars, ring_buffer, clock, running, now, command_queue,
                   cmd, pre, scenario, pc, callVars>>

\* set_volume(v): the store through the guard, which is then dropped
SetVolumeStore ==
    /\ setter.pc = "locked"
    /\ audio_output' = [audio_output EXCEPT !.volume = setter.vol]
    /\ volume_lock' = None
    /\ setter' = [pc |-> "idle", vol |-> 0]
    /\ UNCHANGED unitVars
    /\ UNCHANGED <<playerVars, current_format, engineEvents, decoder, output,
                   held, callback, controlVars, buffer_pool, tickVars,
                   ring_buffer, clock, running, now, command_queue, cmd, pre,
                   scenario, pc, callVars>>

\* the device calls the closure of create_stream with a block to fill
CallbackBegin(block) ==
    /\ callback.pc = "idle"
    /\ audio_output.stream = Some("running")
    /\ callback' = [pc |-> "lock", vol |-> 0, data |-> block]
    /\ UNCHANGED unitVars
    /\ UNCHANGED <<playerVars, current_format, engineEvents, decoder, output,
                   held, audio_output, volume_lock, setter, controlVars,
                   buffer_pool, tickVars, ring_buffer, clock, running, now,
                   command_queue, cmd, pre, scenario, pc, callVars>>

\* let vol = *volume.lock(): returns once the mutex is free
CallbackLock ==
    /\ callback.pc = "lock"
    /\ volume_lock = None
    /\ callback' = [callback EXCEPT !.pc = "fill", !.vol = audio_output.volume]
    /\ UNCHANGED unitVars
    /\ UNCHANGED <<playerVars, current_format, engineEvents, decoder, output,
                   held, audio_output, volume_lock, setter, controlVars,
                   buffer_pool, tickVars, ring_buffer, clock, running, now,
                   command_queue, cmd, pre, scenario, pc, callVars>>

\* the rest of the closure: the block is scaled in place and handed back
CallbackFill ==
    /\ callback.pc = "fill"
    /\ callback' = [callback EXCEPT !.pc = "idle",
                                    !.data = Scale(callback.data, callback.vol)]
    /\ UNCHANGED unitVars
    /\ UNCHANGED <<playerVars, current_format, engineEvents, decoder, output,
                   held, audio_output, volume_lock, setter, controlVars,
                   buffer_pool, tickVars, ring_buffer, clock, running, now,
                   command_queue, cmd, pre, scenario, pc, callVars>>

CallbackNext ==
    \/ \E block \in Blocks : CallbackBegin(block)
    \/ CallbackLock
    \/ CallbackFill

(***************************************************************************)
(* Specifications                                                          *)
(***************************************************************************)
WorkerNext ==
    \/ WorkerRecv
    \/ WorkerTimeout
    \/ WorkerLoadTrack
    \/ WorkerPlay
    \/ WorkerPause
    \/ WorkerStop
    \/ WorkerSeek
    \/ ProducerTick
    \/ PoolLockCall
    \/ ProducerDecode
    \/ WorkerSleep

\* the engine driven through its command queue, one command at a time, with
\* a control-plane thread that serves play / pause / stop requests and a
\* library client that calls Player::set_state between commands
Next ==
    \/ \E c \in Commands : SerialSendCommand(c)
    \/ WorkerNext
    \/ \E t \in {Worker, "h1"} : PlayerStep(t)
    \/ \E o \in {"play", "pause", "stop"} : SerialHandlerCall("h1", o)
    \/ \E s \in ApiStates : SetStateCall("h1", s)
    \/ HandlerReturn("h1")

Spec == Init /\ [][Next]_vars

\* the transport under concurrent play / pause / stop: the worker serving
\* Play, Pause and Stop commands while the control-plane threads call the
\* Player directly
NextConc ==
    \/ \E c \in TransportCommands : SendCommand(c)
    \/ WorkerRecv
    \/ WorkerTimeout
    \/ WorkerPlay
    \/ WorkerPause
    \/ WorkerStop
    \/ ProducerTick
    \/ WorkerSleep
    \/ \E t \in Threads : PlayerStep(t)
    \/ \E h \in Handlers, o \in {"play", "pause", "stop"} : HandlerCall(h, o)
    \/ \E h \in Handlers : HandlerReturn(h)

SpecConc == Init /\ [][NextConc]_vars

\* the commands of a session that loads the long track, plays it and sets
\* the volume
OutputCommands ==
    {Cmd("LoadTrack", "a.flac", 0), Cmd("Play", "", 0), Cmd("Shutdown", "", 0)}
    \cup {Cmd("SetVolume", "", v) : v \in Volumes}

\* the engine's worker in such a session
OutputWorkerNext ==
    \/ WorkerRecv
    \/ WorkerTimeout
    \/ WorkerLoadTrack
    \/ WorkerPlay
    \/ ProducerTick
    \/ PoolLockCall
    \/ ProducerDecode
    \/ WorkerSleep
    \/ PlayerStep(Worker)

\* the engine next to an AudioOutput that a client of the library opened and
\* whose volume it sets
NextOutput ==
    \/ \E c \in OutputCommands : SerialSendCommand(c)
    \/ OutputWorkerNext
    \/ OutputStart
    \/ \E v \in Volumes : SetVolumeLock(v)
    \/ SetVolumeStore
    \/ CallbackNext

SpecOutput == Init /\ [][NextOutput]_vars

\* the same with the worker thread scheduled whenever it can run, a thread
\* inside set_volume's critical section leaving it, and the device's callback
\* thread running again and again (parking_lot's mutex is eventually fair, so
\* the callback gets the volume lock if it is free infinitely often)
SpecOutputFair ==
    /\ SpecOutput
    /\ WF_vars(OutputWorkerNext)
    /\ WF_vars(SetVolumeStore)
    /\ SF_vars(CallbackNext)

\* a control-plane thread that loads tracks and reads the format while the
\* worker serves the queue
NextControl ==
    \/ \E p \in Paths : HandlerLoadTrack("h1", p)
    \/ HandlerGetFormat("h1")
    \/ WorkerRecv
    \/ WorkerTimeout
    \/ PlayerMatch(Worker)
    \/ WorkerLoadTrack
    \/ ProducerTick
    \/ WorkerSleep

SpecControl == Init /\ [][NextControl]_vars

\* a BufferPool and callers that acquire buffers, write to them and release
\* each of them once
NextPool ==
    \/ PoolAcquireCall
    \/ \E i \in 1..PoolSize, at \in 0..(BufferSizeFrames - 1),
          f \in 0..(TrackFrames - 1) : HolderWrite(i, at, f)
    \/ \E i \in 1..PoolSize : PoolReleaseCall(i)

SpecPool == Init /\ [][NextPool]_vars

\* the same pool when callers also release buffers they made themselves
NextPoolAny ==
    \/ NextPool
    \/ \E fmt \in CallerFormats, n \in CallerFrames : PoolReleaseNew(fmt, n)

SpecPoolAny == Init /\ [][NextPoolAny]_vars

\* a SharedRingBuffer with one thread writing and one thread reading
NextRing ==
    \/ \E n \in RingSizes : RingWriteCall(n)
    \/ \E n \in RingSizes : RingReadCall(n)
    \/ \E t \in {RingWriter, RingReader} : RingLock(t)
    \/ RingWriteLocked
    \/ RingReadLocked

SpecRing == Init /\ [][NextRing]_vars

\* a Decoder whose caller decodes, seeks and resets in any order
NextDecoder ==
    \/ \E n \in BufferFrames : DecodeNextCall(n)
    \/ \E f \in 0..(MaxPackets * MaxPacketFrames) : SeekCall(f)
    \/ ResetCall

SpecDecoder == InitDecoder /\ [][NextDecoder]_vars

\* a BitPerfectManager whose caller prepares formats, checks the integrity
\* and looks for devices
NextBitPerfect ==
    \/ \E source \in SourceFormats : PrepareFormatCall(source)
    \/ CheckIntegrityCall
    \/ \E fmt \in SourceFormats : FindBestDeviceCall(fmt)

SpecBitPerfect == InitBitPerfect /\ [][NextBitPerfect]_vars

\* an Equalizer whose caller sets gains and bands and uses presets
NextEqualizer ==
    \/ \E i \in BandIndexes, g \in GainArguments : SetBandGainCall(i, g)
    \/ \E bands \in BandVectors : SetBandsCall(bands)
    \/ \E name \in PresetNames : ApplyPresetCall(name)
    \/ SavePresetCall
    \/ EqualizerResetCall

SpecEqualizer == InitEqualizer /\ [][NextEqualizer]_vars

\* a DSPChain whose caller adds and removes processors and processes blocks
NextChain ==
    \/ \E processor \in Processors : AddProcessorCall(processor)
    \/ \E name \in ProcessorNames : RemoveProcessorCall(name)
    \/ \E enabled \in BOOLEAN : ChainSetEnabledCall(enabled)
    \/ ChainProcessCall(InputBlock)
    \/ ChainResetCall

SpecChain == InitChain /\ [][NextChain]_vars

\* an AudioClock whose caller starts, updates, stops, resets and reads it
NextClock ==
    \/ ClockStartCall
    \/ ClockStopCall
    \/ \E n \in UpdateFrames : ClockUpdateCall(n)
    \/ ClockResetCall
    \/ ClockGetStatsCall
    \/ ClockTime

SpecClock == InitClock /\ [][NextClock]_vars

\* an AudioOutput whose owner starts, pauses, resumes and stops it and sets
\* its volume
NextLifecycle ==
    \/ \E built \in BOOLEAN : OutputStartCall(built)
    \/ OutputStopCall
    \/ \E paused \in BOOLEAN : OutputPauseCall(paused)
    \/ \E resumed \in BOOLEAN : OutputResumeCall(resumed)
    \/ \E v \in Volumes : SetVolumeLock(v)
    \/ SetVolumeStore

SpecLifecycle == InitLifecycle /\ [][NextLifecycle]_vars

TypeOK ==
    /\ state \in PlayerStates
    /\ position \in Positions
    /\ now \in 0..(MaxTime + MaxQueue)
    /\ Len(command_queue) <= MaxQueue
    /\ Len(ring_buffer) <= RingCapacity


(***************************************************************************)
(* Properties                                                              *)
(***************************************************************************)
\* the worker has handled a command of type t and not yet run the rest of
\* the loop round
Handled(t) == pc[Worker] = "tick" /\ CmdIs(t)

\* the transitions of section 4.10 (Play, Pause, Stop, LoadTrack, Seek,
\* underrun, fatal error), as pairs <<from, to>>
LegalTransitions ==
    {<<"Stopped", "Playing">>, <<"Paused", "Playing">>,
     <<"Playing", "Playing">>, <<"Buffering", "Playing">>,
     <<"Playing", "Paused">>, <<"Paused", "Paused">>,
     <<"Playing", "Buffering">>}
    \cup {<<s, "Stopped">> : s \in PlayerStates}
    \cup {<<s, "Error">> : s \in PlayerStates}

\* the states named by the published StateChanged events, in order
PublishedStates ==
    LET sc == SelectSeq(playerEvents, LAMBDA e : e.type = "StateChanged")
    IN [i \in 1..Len(sc) |-> sc[i].state]

\* C1: under any interleaving of play / pause / stop calls by the worker and
\* the control-plane threads, the transport holds one state and every
\* published StateChanged(s') is a legal section-4.10 transition from the
\* state named by the previously published StateChanged (Stopped initially)
C1_PublishedTransitionsLegal ==
    /\ state \in PlayerStates
    /\ \A i \in 1..Len(PublishedStates) :
          <<IF i = 1 THEN "Stopped" ELSE PublishedStates[i - 1],
            PublishedStates[i]>> \in LegalTransitions

\* OutputBackend running: a stream is open and playing
OutputRunning == IsSome(output) /\ Unwrap(output).is_playing

\* no command is being processed and no Player call is in progress
Quiescent == pc[Worker] \in {"recv", "exited"} /\ HandlersIdle

\* C2: whenever the engine is between commands, the transport is Playing if
\* and only if a decoder is open, the clock is running and the output backend
\* is running
C2_PlayingIffPipelineRunning ==
    Quiescent =>
        (state = "Playing"
            <=> (IsSome(decoder) /\ ClockIsRunning(clock) /\ OutputRunning))

\* C3: after the engine processes Stop in Playing, Paused or Buffering, the
\* transport is Stopped, the position is 0, the ring is empty and the clock is
\* not running
C3_StopResets ==
    (Handled("Stop") /\ Unwrap(pre).state \in {"Playing", "Paused", "Buffering"})
        => /\ state = "Stopped"
           /\ position = 0
           /\ ring_buffer = <<>>
           /\ ~ClockIsRunning(clock)

\* a Stop was processed that found the transport Playing and the clock
\* running
C3_Witness ==
    /\ Handled("Stop")
    /\ Unwrap(pre).state = "Playing"
    /\ ClockIsRunning(Unwrap(pre).clock)
    /\ state = "Stopped"

\* a Stop was processed that found the transport Buffering with a running
\* clock
C3_WitnessBuffering ==
    /\ Handled("Stop")
    /\ Unwrap(pre).state = "Buffering"
    /\ ClockIsRunning(Unwrap(pre).clock)

\* C4: a Stop issued while the transport is in Error succeeds and leaves the
\* transport Stopped
C4_StopClearsError ==
    (Handled("Stop") /\ Unwrap(pre).state = "Error")
        => (result[Worker] = "Ok" /\ state = "Stopped")

\* the clock's counters are zero
ClockCountersReset(c) ==
    c.frames_played = 0 /\ c.drift_accumulator = 0 /\ c.jitter_samples = <<>>

\* C5: after LoadTrack(path) with a decoder that opens, from any prior state,
\* the transport is Stopped, the ring is empty, the clock is stopped and
\* reset, and the open decoder is the one for path
C5_LoadTrackResets ==
    (Handled("LoadTrack") /\ Unwrap(cmd).path \in GoodPaths)
        => /\ state = "Stopped"
           /\ ring_buffer = <<>>
           /\ ~ClockIsRunning(clock)
           /\ ClockCountersReset(clock)
           /\ IsSome(decoder)
           /\ Unwrap(decoder).path = Unwrap(cmd).path
           /\ Unwrap(decoder).current_frame = 0

\* the frame of the open track that lies d seconds in
SeekFrame(dec, d) == d * TrackFormat(dec.path).sample_rate

\* C6: after Seek(d) while Playing or Paused, the state is unchanged, the ring
\* is empty, the clock counters are reset, the decoder is repositioned to d
\* and exactly one PositionChanged(d) was published
C6_SeekRepositions ==
    (Handled("Seek") /\ Unwrap(pre).state \in {"Playing", "Paused"})
        => /\ state = Unwrap(pre).state
           /\ ring_buffer = <<>>
           /\ ClockCountersReset(clock)
           /\ IsSome(decoder) =>
                 Unwrap(decoder).current_frame
                     = SeekFrame(Unwrap(decoder), Unwrap(cmd).pos)
           /\ playerEvents
                 = Append(Unwrap(pre).events, PositionChanged(Unwrap(cmd).pos))

\* C7: Pause in a state other than Playing or Paused returns InvalidState,
\* publishes no event and leaves state, position, ring and clock unchanged
C7_InvalidPause ==
    (Handled("Pause") /\ Unwrap(pre).state \notin {"Playing", "Paused"})
        => /\ result[Worker] = "InvalidState"
           /\ playerEvents = Unwrap(pre).events
           /\ state = Unwrap(pre).state
           /\ position = Unwrap(pre).position
           /\ ring_buffer = Unwrap(pre).ring_buffer
           /\ clock = Unwrap(pre).clock

\* a Pause was processed on a fresh engine
C7_Witness ==
    /\ Handled("Pause")
    /\ Unwrap(pre).state = "Stopped"
    /\ Unwrap(pre).events = <<>>
    /\ result[Worker] = "InvalidState"

\* C8: Play while already Playing is a no-op: no event is published and the
\* state, the position and the clock's start instant, frame counter and
\* jitter window are unchanged
C8_PlayWhilePlayingNoop ==
    (Handled("Play") /\ Unwrap(pre).state = "Playing")
        => /\ playerEvents = Unwrap(pre).events
           /\ state = "Playing"
           /\ position = Unwrap(pre).position
           /\ clock.start_time = Unwrap(pre).clock.start_time
           /\ clock.frames_played = Unwrap(pre).clock.frames_played
           /\ clock.jitter_samples = Unwrap(pre).clock.jitter_samples

\* the commands of the LoadTrack(p), Play, Stop scenario the worker has
\* finished handling
ScenarioHandled ==
    IF scenario <= 0 THEN 0
    ELSE IF pc[Worker] \in {"match", "set_read", "set_write", "set_send",
                            "pos_write", "pos_send", "ret"}
    THEN scenario - 1
    ELSE scenario

\* what the scenario delivers besides PositionChanged, in order
ScenarioEvents(p) ==
    <<TrackChanged(p), StateChanged("Playing"), StateChanged("Stopped")>>

\* C9: for LoadTrack(p), Play, Stop on a fresh engine with p decodable, the
\* event receiver delivers TrackChanged(p), then StateChanged(Playing), then
\* after zero or more PositionChanged, StateChanged(Stopped): once the worker
\* has handled the first k of the three commands, the delivered events other
\* than PositionChanged begin with the first k of these, and PositionChanged
\* comes only after StateChanged(Playing)
C9_LoadPlayStopEvents ==
    ScenarioHandled >= 1 =>
        LET ev == SelectSeq(EventReceiver, LAMBDA e : e.type # "PositionChanged")
        IN /\ Len(ev) >= ScenarioHandled
           /\ \A i \in 1..ScenarioHandled :
                 ev[i] = ScenarioEvents(Unwrap(decoder).path)[i]
           /\ \A m \in 1..Len(EventReceiver) :
                 EventReceiver[m].type = "PositionChanged"
                    => \E j \in 1..(m - 1) :
                          EventReceiver[j] = StateChanged("Playing")

\* C10: when opening the decoder fails during LoadTrack, an Error event is
\* delivered to the engine's event receiver and the transport is Stopped
\* afterwards
C10_LoadFailureReported ==
    (Handled("LoadTrack") /\ Unwrap(cmd).path \in BadPaths)
        => /\ \E i \in (Len(Unwrap(pre).events) + 1)..Len(EventReceiver) :
                 EventReceiver[i].type = "Error"
           /\ state = "Stopped"

\* the worker waits for the buffer_pool mutex while the guard of its own
\* match scrutinee is alive: no thread will ever release it
WorkerBlocked == pc[Worker] = "release" /\ ~PoolLockFree(pool_guard)

\* the worker thread can take no further step
WorkerHalted == pc[Worker] = "exited" \/ WorkerBlocked

\* C11: if the transport is Playing and decode_next returns 0 frames (end of
\* stream), the transport eventually transitions to Stopped: once the worker
\* can take no further step, a round whose decode_next returned 0 frames has
\* left the transport Stopped
C11_EndOfStreamStops ==
    (WorkerHalted /\ frames = Some(0)) => state = "Stopped"

\* C12: from every reachable engine state, including Playing with a track
\* loaded and the ring below the target level, the worker never blocks
\* forever, so that after Shutdown the loop exits and the join returns
C12_WorkerNeverBlocks == ~WorkerBlocked

\* the bytes the round's ring_buffer.write placed in the ring
PlacedBytes ==
    SubSeq(ring_buffer, Len(ring_buffer) - written + 1, Len(ring_buffer))

\* the bytes of the frames decode_next reported for the round
DecodedBytes == SubSeq(Unwrap(buffer).data, 1, Unwrap(frames) * BytesPerFrame)

\* C13: the bytes the producer places in the ring for a decode call are bytes
\* of the frames the decoder reported, in order, and none beyond
\* frames * bytes_per_frame (a partial write places a prefix of them)
C13_RingHoldsDecodedBytes ==
    (pc[Worker] = "release" /\ IsSome(frames) /\ Unwrap(frames) > 0)
        => /\ Len(PlacedBytes) <= Len(DecodedBytes)
           /\ PlacedBytes = SubSeq(DecodedBytes, 1, Len(PlacedBytes))

\* the decoder has handed out every frame of its track
AtEndOfStream(dec) == dec.packet >= Len(dec.packets)

\* the transport is Playing, the decoder has frames left, an output stream
\* is open and the ring's fill level is at or above the target
RingAtTarget ==
    /\ state = "Playing"
    /\ IsSome(decoder) /\ ~AtEndOfStream(Unwrap(decoder))
    /\ IsSome(audio_output.stream)
    /\ ~BelowTarget(ring_buffer)

\* the producer has reason to decode again, or playback has ended
RingDrained == BelowTarget(ring_buffer) \/ state # "Playing"

\* C14: while the transport is Playing, the decoder has not reached end of
\* stream and an output stream is open, the output callback keeps consuming
\* from the ring: whenever the fill level is at or above the target it later
\* drops below it, so that the producer decodes again
C14_PlaybackDoesNotStall == RingAtTarget ~> RingDrained

\* a run of the output callback completes while the transport is Playing and
\* the ring holds fewer bytes than the device block
UnderrunStep ==
    /\ callback.pc = "fill" /\ callback'.pc = "idle"
    /\ state = "Playing"
    /\ Len(ring_buffer) < BlockBytes

\* C15: whenever the output callback runs while the transport is Playing and
\* the ring holds fewer bytes than the device block, the samples the ring
\* cannot supply are delivered as silence and a BufferUnderrun event has
\* been published
C15_UnderrunReported ==
    [][UnderrunStep =>
          /\ \A i \in DOMAIN callback'.data :
                i * DefaultBytesPerSample > Len(ring_buffer)
                    => callback'.data[i] = 0
          /\ \E m \in 1..Len(playerEvents') :
                playerEvents'[m].type = "BufferUnderrun"]_vars

\* C16: the output callback never acquires a mutex, so it never waits for a
\* lock held by the producer or by a control thread in set_volume
C16_CallbackNeverWaits == ~(callback.pc = "lock" /\ IsSome(volume_lock))

\* C17: after the control channel has answered a player.load of a decodable
\* path with success, every get_format read that follows returns that
\* track's format, under any interleaving with the engine worker
C17_ReadsReflectAckedLoad ==
    (IsSome(acked) /\ Unwrap(acked) \in GoodPaths /\ IsSome(response))
        => Unwrap(response) = Some(TrackFormat(Unwrap(acked)))

\* C19: for acquire() and release() calls in which each released buffer came
\* from this pool and is released once, available_count() plus the number of
\* buffers callers hold equals pool_size in every state; a release raises
\* available_count() by the one the acquire took, and acquire on an empty
\* pool returns None and leaves the pool unchanged
C19_PoolConservation ==
    /\ [](AvailableCount(buffer_pool) + Len(held) = PoolSize)
    /\ [][(\E i \in 1..PoolSize : PoolReleaseCall(i))
             => AvailableCount(buffer_pool') = AvailableCount(buffer_pool) + 1]_vars
    /\ [][PoolAcquireCall =>
             IF AvailableCount(buffer_pool) = 0
             THEN buffer' = None /\ buffer_pool' = buffer_pool
             ELSE /\ IsSome(buffer')
                  /\ AvailableCount(buffer_pool')
                        = AvailableCount(buffer_pool) - 1]_vars

\* every buffer of the pool was acquired again after a release, and the pool
\* is empty
C19_Witness ==
    /\ Len(buffer_pool.buffers) > PoolSize
    /\ Len(held) = PoolSize
    /\ AvailableCount(buffer_pool) = 0
    /\ IsSome(buffer)

VolumeRequested ==
    /\ Handled("SetVolume")
    /\ IsSome(audio_output.stream)
    /\ audio_output.volume # Clamp(Unwrap(cmd).pos)

\* the output's volume is one a SetVolume command asked for
VolumeSet == \E v \in Volumes : audio_output.volume = Clamp(v)

\* C18: after the engine has processed SetVolume(v), the volume the output
\* callback reads eventually equals v clamped to the allowed range
C18_VolumeApplied == VolumeRequested ~> VolumeSet

\* C21: release(b) puts b on the free list if and only if b.capacity()
\* equals the pool's bytes_per_frame * buffer_size_frames; a buffer of any
\* other byte capacity is dropped and available_count() stays as it was
C21_ReleaseIffCapacityMatches ==
    pool_call.op = "release" =>
        IF pool_call.capacity = BytesPerFrame * BufferSizeFrames
        THEN pool_call.after = pool_call.before + 1
        ELSE pool_call.after = pool_call.before

\* C22: after any sequence of acquire() and release() calls total_count()
\* equals the pool_size given at construction: no buffer slot is created
\* after construction
C22_TotalCountStays == TotalCount(buffer_pool) = PoolSize

\* C23: in every state of the ring 0 <= len() <= capacity() and
\* len() + available() = capacity(); write(data) returns exactly
\* min(data.len(), available()) and read(buf) returns exactly
\* min(buf.len(), len())
C23_RingCounts ==
    /\ 0 <= RingLen(ring_buffer)
    /\ RingLen(ring_buffer) <= RingCapacity
    /\ RingLen(ring_buffer) + RingAvailable(ring_buffer) = RingCapacity
    /\ ring_call.op = "write" =>
          /\ ring_call.ret = Min(ring_call.len, RingCapacity - ring_call.before)
          /\ ring_call.before + ring_call.ret <= RingCapacity
    /\ ring_call.op = "read" =>
          ring_call.ret = Min(ring_call.len, ring_call.before)

\* a write longer than the free space has just returned the free space and
\* filled the ring
C23_Witness ==
    /\ ring_call.op = "write"
    /\ ring_call.before > 0
    /\ ring_call.len > RingCapacity - ring_call.before
    /\ ring_call.ret = RingCapacity - ring_call.before
    /\ RingLen(ring_buffer) = RingCapacity

\* a read of the whole capacity has just drained what such a write left
C23_WitnessDrained ==
    /\ ring_call.op = "read"
    /\ ring_call.before = RingCapacity
    /\ ring_call.ret = RingCapacity
    /\ RingLen(ring_buffer) = 0
    /\ Len(accepted) < ring_writer.issued

\* C24: with one writer and one reader on a SharedRingBuffer, in any
\* interleaving and without clear, the bytes the reads returned are at every
\* moment a prefix of the bytes the writes accepted, and what is still in the
\* ring is the rest of them
C24_ReadsArePrefixOfWrites ==
    /\ Len(delivered) <= Len(accepted)
    /\ delivered = SubSeq(accepted, 1, Len(delivered))
    /\ accepted = delivered \o ring_buffer

\* more bytes than the ring holds went through it, and the reader waits for
\* the mutex while the writer is inside
C24_Witness ==
    /\ Len(accepted) > RingCapacity
    /\ Len(delivered) > 0
    /\ ring_lock = Some(RingWriter)
    /\ ring_reader.pc = "lock"

\* RingCapacity bytes were written to a fresh ring by one write and came
\* back from one read
C24_WitnessWholeRing ==
    /\ Len(delivered) = RingCapacity
    /\ accepted = delivered
    /\ ring_call.op = "read"
    /\ ring_call.ret = RingCapacity
    /\ ring_writer.issued = RingCapacity

\* the frames of the whole track of the Decoder
TotalFrames(dec) == PacketStart(dec.packets, Len(dec.packets))

\* the first frame of the packet that holds source frame f
PacketFloor(dec, f) ==
    CHOOSE x \in {PacketStart(dec.packets, k) : k \in 0..Len(dec.packets)} :
        /\ x <= f
        /\ \A k \in 0..Len(dec.packets) :
              PacketStart(dec.packets, k) <= f => PacketStart(dec.packets, k) <= x

\* C25: for any packet sizes and any buffer capacity the frames successive
\* decode_next calls return are, in order, the frames of the source with
\* none left out: what did not fit in one buffer comes with the next call,
\* and when decode_next reports the end of the stream every frame of the
\* track was returned
C25_NoFrameDropped ==
    /\ out_frames = [i \in 1..Len(out_frames) |-> i - 1]
    /\ (decoder_call.op = "decode_next" /\ decoder_call.ret = 0) =>
          Len(out_frames) = TotalFrames(Unwrap(unit_decoder))

\* C26: after seek(f) the next decode_next returns frames of the source that
\* start at f, or at the start of the packet that holds f, and
\* current_frame is the source frame after the last one returned
C26_DecodeAfterSeek ==
    (decoder_call.op = "decode_next" /\ IsSome(decoder_call.sought)) =>
        /\ IsSome(decoder_call.first)
        /\ Unwrap(decoder_call.first) <= Unwrap(decoder_call.sought)
        /\ Unwrap(decoder_call.first)
              >= PacketFloor(Unwrap(unit_decoder), Unwrap(decoder_call.sought))
        /\ Unwrap(unit_decoder).current_frame
              = Unwrap(decoder_call.first) + decoder_call.ret

\* C27: current_frame never decreases except through seek: decode_next
\* raises it by exactly the number of frames it returns, by nothing at the
\* end of the stream, and reset() leaves it as it was
C27_CurrentFrameMonotone ==
    /\ decoder_call.op = "decode_next" =>
          Unwrap(unit_decoder).current_frame
              = decoder_call.before + decoder_call.ret
    /\ decoder_call.op = "reset" =>
          Unwrap(unit_decoder).current_frame = decoder_call.before

\* the manager, the source and the result of the last prepare_format
Manager == Unwrap(bitperfect)
Source == Unwrap(prepared).source
Prepared == Unwrap(prepared).result

\* the selected device has a config with exactly the format's channel count
\* and sample encoding whose rates hold the format's rate
SupportsExactly(device, fmt) ==
    \E config \in device.configs :
        /\ config.channels = fmt.channels
        /\ config.sample_format = ToCpalFormat(fmt.sample_format)
        /\ config.min_sample_rate <= fmt.sample_rate
        /\ config.max_sample_rate >= fmt.sample_rate

\* C28: for a source format with an integer sample encoding, if some
\* enumerated device is reported as supporting it and mode is not Disabled,
\* prepare_format returns exactly the source format and sets is_bitperfect
C28_SupportedIntegerFormatIsBitPerfect ==
    (/\ IsSome(prepared)
     /\ IsInteger(Source.sample_format)
     /\ Manager.config.mode # "Disabled"
     /\ \E i \in 1..Len(Manager.device_manager.devices) :
           SupportsFormat(Manager.device_manager.devices[i], Source))
    => /\ Prepared = Ok(Source)
       /\ Manager.is_bitperfect

\* C29: prepare_format sets is_bitperfect and returns the source format
\* only if the selected device supports the source format exactly: its
\* sample rate, its channel count and its sample encoding
C29_BitPerfectOnlyIfExactSupport ==
    (IsSome(prepared) /\ Manager.is_bitperfect) =>
        /\ IsSome(DefaultDevice(Manager.device_manager))
        /\ SupportsExactly(Unwrap(DefaultDevice(Manager.device_manager)),
                           Source)

\* C30: with mode = Disabled prepare_format never fails, whatever
\* allow_resampling is, and is_bitperfect is false
C30_DisabledNeverFails ==
    (IsSome(prepared) /\ Manager.config.mode = "Disabled") =>
        /\ Prepared.ok
        /\ ~Manager.is_bitperfect

\* C31: when prepare_format fails with BitPerfectError, current_format()
\* and is_bitperfect() return what they returned before the call
C31_FailedPrepareChangesNothing ==
    (IsSome(prepared) /\ ~Prepared.ok) =>
        /\ Manager.current_format = Unwrap(prepared).before.current_format
        /\ Manager.is_bitperfect = Unwrap(prepared).before.is_bitperfect

\* the delivery format the last prepare_format returned
Delivery == Unwrap(Prepared.format)

\* C32: after a successful prepare_format, with the devices unchanged,
\* check_integrity() returns true, also for a resampled delivery format; it
\* returns false only when the device does not support the delivery format
C32_IntegrityAfterPrepare ==
    (/\ IsSome(prepared)
     /\ Prepared.ok
     /\ IsSome(integrity)
     /\ IsSome(DefaultDevice(Manager.device_manager))
     /\ SupportsFormat(Unwrap(DefaultDevice(Manager.device_manager)),
                       Delivery))
    => Unwrap(integrity)

\* the score of a device for a format: the best score of its configs, -1
\* without any config
RECURSIVE BestScore(_, _)
BestScore(configs, fmt) ==
    IF configs = {}
    THEN -1
    ELSE LET config == CHOOSE x \in configs : TRUE
             rest == BestScore(configs \ {config}, fmt)
         IN IF ScoreConfig(config, fmt) > rest THEN ScoreConfig(config, fmt)
            ELSE rest

\* the devices of the manager and the last search
Devices == Manager.device_manager.devices
Searched == Unwrap(best).format

\* the places of the devices that support the searched format with a
\* score above 0
Candidates ==
    {i \in 1..Len(Devices) :
        /\ SupportsFormat(Devices[i], Searched)
        /\ BestScore(Devices[i].configs, Searched) > 0}

\* C33: find_best_device_for_format returns, among the enumerated devices
\* that support the format, one whose score is maximal, and no device when
\* no device scores above 0
C33_FindBestIsHighestScore ==
    IsSome(best) =>
        IF Candidates = {}
        THEN Unwrap(best).device = None
        ELSE /\ IsSome(Unwrap(best).device)
             /\ Unwrap(Unwrap(best).device) \in Candidates
             /\ \A i \in Candidates :
                   BestScore(Devices[i].configs, Searched)
                     <= BestScore(Devices[Unwrap(Unwrap(best).device)].configs,
                                  Searched)

\* C35: after any sequence of Equalizer operations every band's gain_db
\* lies in [-20, +20], and a band whose gain was set to x holds
\* clamp(x, -20, 20)
C35_BandGainsClamped ==
    IsSome(equalizer) =>
        /\ \A i \in DOMAIN Unwrap(equalizer).bands :
              /\ Unwrap(equalizer).bands[i].gain_db >= -20
              /\ Unwrap(equalizer).bands[i].gain_db <= 20
        /\ (/\ IsSome(eq_call)
            /\ Unwrap(eq_call).op = "set_band_gain"
            /\ Unwrap(eq_call).ok)
           => Unwrap(equalizer).bands[Unwrap(eq_call).index + 1].gain_db
                = ClampGain(Unwrap(eq_call).gain)

\* the last call on the chain
ChainCall == Unwrap(chain_call)

\* the processors of procs that are enabled, as a set
EnabledOf(procs) == {procs[i] : i \in {j \in DOMAIN procs : IsEnabled(procs[j])}}

\* the block after the processors of the set todo have been applied to it
\* in the order they were inserted, each to the output of the one before
RECURSIVE InInsertionOrder(_, _)
InInsertionOrder(todo, block) ==
    IF todo = {}
    THEN block
    ELSE LET first == CHOOSE p \in todo : \A q \in todo : p.added <= q.added
         IN InInsertionOrder(todo \ {first},
                             ProcessorProcess(first, block).output)

C40_ResetKeepsParameters ==
    (IsSome(chain_call) /\ ChainCall.op = "reset") =>
        \A i \in DOMAIN ChainCall.before.processors :
            LET old == ChainCall.before.processors[i]
                new == Unwrap(chain).processors[i]
            IN /\ new.volume = old.volume
               /\ new.gain_db = old.gain_db
               /\ IsSome(old.eq) =>
                     /\ Unwrap(new.eq).bands = Unwrap(old.eq).bands
                     /\ Unwrap(new.eq).current_preset
                          = Unwrap(old.eq).current_preset

\* the last call on the clock
ClockCall == Unwrap(clock_stats)

\* C36: get_stats() after start() with no update() reports drift_ppm = 0
\* whatever time has passed since the start; after exactly one update() it
\* reports jitter_ns = 0
C36_FreshClockStats ==
    (/\ IsSome(clock_stats)
     /\ ClockCall.op = "get_stats"
     /\ IsSome(ClockCall.stats)
     /\ Len(clock.jitter_samples) = ClockCall.updates)
    => /\ ClockCall.updates = 0 => Unwrap(ClockCall.stats).drift_ppm = 0
       /\ ClockCall.updates = 1 => Unwrap(ClockCall.stats).jitter_ns = 0

\* the worker is between two producer ticks
BetweenTicks == pc[Worker] \in {"sleep", "recv", "ret", "tick", "exited"}

\* the buffer the tick acquired is back in the pool
BufferReturned == buffer = None /\ AvailableCount(buffer_pool) = PoolSize

\* C37: a producer tick that acquired a buffer returns it before the tick
\* ends and never waits for a mutex the worker thread itself holds: where the
\* tick calls buffer_pool.lock() to release, no guard of that mutex is alive,
\* and between ticks available_count() is what it was before the tick
C37_TickReturnsBuffer ==
    /\ (pc[Worker] = "release" /\ IsSome(buffer)) => PoolLockFree(pool_guard)
    /\ BetweenTicks => BufferReturned

\* thread t is inside a Player operation
InPlayerCall(t) ==
    pc[t] \in {"match", "set_read", "set_write", "set_send", "pos_write",
               "pos_send"}

\* C38: whenever no Player operation is in progress, the state named by the
\* most recently published StateChanged event is the transport's state,
\* under any interleaving of play, pause and stop calls by different threads
C38_LastEventNamesState ==
    ((\A t \in Threads : ~InPlayerCall(t)) /\ PublishedStates # <<>>)
        => PublishedStates[Len(PublishedStates)] = state

\* C39: after any sequence of start, pause, resume and stop calls
\* is_playing() is true exactly when a stream is open and running: never
\* while no stream is open, and always after a start() that returned Ok
C39_PlayingIffStreamRunning ==
    /\ audio_output.is_playing <=> audio_output.stream = Some("running")
    /\ (/\ IsSome(output_call)
        /\ Unwrap(output_call).op = "start"
        /\ Unwrap(output_call).ok)
       => audio_output.is_playing

====
